---- MODULE Spec2Model ----
(***************************************************************************)
(* Deck building pipeline of mandarin-anki-ui.                             *)
(*                                                                         *)
(* Three entry points are modelled, selected by the variable entry:        *)
(*   "core"  mandarin_anki.builder.build_anki_deck                         *)
(*   "ui"    mandarin_anki_ui.deck_builder.build_anki_deck                 *)
(*   "audio" mandarin_anki.audio_engine.generate_audio_from_text           *)
(*                                                                         *)
(* Text is a sequence of one-character strings, so that the file name      *)
(* arithmetic of the builders (lower(), endswith(), Path.stem, the "/"     *)
(* join) is computed the way the code computes it.  The file system below  *)
(* output_dir is a function from relative path to the content of the file. *)
(* The TTS engine, the audio library and the progress callback are the     *)
(* environment: each of their calls may return or raise.                   *)
(***************************************************************************)
EXTENDS Integers, Sequences, FiniteSets, TLC

VARIABLES
    entry,          \* which entry point this run executes
    pc,             \* position inside the entry point
    outcome,        \* "running", "returned" or "raised"
    exc,            \* the exception that left the entry point: [type, detail, row_errors]
    regenerate,     \* config.regenerate_audio_if_exists
    speaker_exists, \* config.speaker_wav.exists()
    csv_exists,     \* config.csv_path.exists()
    has_callback,   \* a progress callback was supplied
    rows,           \* the cleaned rows returned by _read_rows
    rows_read,      \* the table was opened and read
    out_dir_made,   \* config.output_dir.mkdir(...) was executed
    fs,             \* files below output_dir: relative path -> content
    dirs,           \* directories that exist below output_dir (relative paths)
    fs0,            \* the files present before the build started
    idx,            \* the loop variable: 1-based position of the last row taken from rows
    notes,          \* deck.notes
    media_files,    \* media_files
    row_errors,     \* row_errors / warnings
    events,         \* what the progress callback has received, in order
    tts_model,      \* 0 = None, otherwise the handle returned by the factory
    pref_exhausted, \* to(device) raised for every device of the preference list
    create_calls,   \* number of factory create calls
    synth_log,      \* tts_to_file calls: [row, handle, path, existed]
    apkg_written,   \* Package.write_to_file produced the archive
    result,         \* the returned DeckBuildResult (or <<>>)
    template,       \* render_template: the template argument
    fields,         \* render_template: the field mapping, name -> value
    front_side,     \* render_template: the front_side argument
    media_map,      \* render_template: the file names media_map holds bytes for
    tpl_text,       \* render_template: rendered (text inside _render_sections)
    render_pc,      \* position inside render_template
    reductions,     \* the sections _render_sections has replaced, in order
    literal_text,   \* _literal_to_br: the text argument
    literal_enable, \* _literal_to_br: the enable argument
    literal_once,   \* _literal_to_br(text, enable)
    literal_twice,  \* _literal_to_br(_literal_to_br(text, enable), enable)
    literal_pc,     \* which of the two calls of _literal_to_br comes next
    apkg,           \* load_apkg_preview: what the uploaded bytes hold
    preview_pc,     \* position inside load_apkg_preview
    preview_exc,    \* the type of the exception that left load_apkg_preview
    cards,          \* _load_collection: cards, the stored cards rendered so far
    col_builder,    \* the builder whose column mapping is computed
    col_override,   \* the columns argument: None, or the items of the dict
    col_mapping,    \* the mapping the row loop of that builder uses
    col_pc,         \* the mapping was computed or not yet
    amb_impl,       \* the code that mixes the ambient track
    amb_voice,      \* len(voice), in milliseconds
    amb_sample,     \* len of the ambient sample as loaded
    amb_len,        \* len(ambient) as it is now
    amb_looped,     \* len(ambient) after the repetition, before the slice
    amb_mixed,      \* len of the clip that is exported
    amb_iters,      \* iterations of the while loop so far
    amb_pc,         \* position inside the mixing step
    amb_exc,        \* the type of the exception that left the mixing step
    up_name,        \* app.py: csv_file.name, the name of the uploaded table
    up_rows,        \* app.py: the cleaned data rows of the upload
    pv_rows,        \* what _build_csv_preview_rows shows: [index, uid, audio, cards]
    bd_notes,       \* the notes the build of the same upload adds: [row, uid, audio]
    agree_pc        \* which of the preview and the build have run

vars == <<entry, pc, outcome, exc, regenerate, speaker_exists, csv_exists,
          has_callback, rows, rows_read, out_dir_made, fs,
          dirs, fs0, idx, notes, media_files, row_errors, events, tts_model,
          pref_exhausted, create_calls, synth_log, apkg_written, result,
          template, fields, front_side, media_map, tpl_text, render_pc, reductions,
          literal_text, literal_enable, literal_once, literal_twice, literal_pc,
          apkg, preview_pc, preview_exc, cards,
          col_builder, col_override, col_mapping, col_pc,
          amb_impl, amb_voice, amb_sample, amb_len, amb_looped, amb_mixed,
          amb_iters, amb_pc, amb_exc,
          up_name, up_rows, pv_rows, bd_notes, agree_pc>>

\* the variables of render_template
render_vars == <<template, fields, front_side, media_map, tpl_text, render_pc, reductions>>

\* the variables of the two calls of _literal_to_br
literal_vars == <<literal_text, literal_enable, literal_once, literal_twice, literal_pc>>

\* the variables of load_apkg_preview
preview_vars == <<apkg, preview_pc, preview_exc, cards>>

\* the variables of the column mapping of a builder
columns_vars == <<col_builder, col_override, col_mapping, col_pc>>

\* the variables of the ambient mixing step
ambient_vars == <<amb_impl, amb_voice, amb_sample, amb_len, amb_looped, amb_mixed,
                  amb_iters, amb_pc, amb_exc>>

\* the variables of the preview and the build of one upload
upload_vars == <<up_name, up_rows, pv_rows, bd_notes, agree_pc>>

\* the variables of the functions that are not deck builders
util_vars == <<render_vars, literal_vars, preview_vars, columns_vars, ambient_vars,
               upload_vars>>

\* --------------------------------------------------------------------------
\* Bounds of the model
\* --------------------------------------------------------------------------

\* largest number of data rows of a table
MaxRows == 2

\* --------------------------------------------------------------------------
\* Text helpers
\* --------------------------------------------------------------------------

\* the value csv.DictReader gives a cell that is missing from a short line
NoneVal == <<"None">>

\* str.lower() on the characters that occur in the model
LowerChar(c) ==
    CASE c = "A" -> "a"
      [] c = "W" -> "w"
      [] c = "V" -> "v"
      [] c = "T" -> "t"
      [] OTHER -> c

Lower(s) == [i \in 1..Len(s) |-> LowerChar(s[i])]

\* str.endswith
EndsWith(s, suf) ==
    /\ Len(suf) <= Len(s)
    /\ SubSeq(s, Len(s) - Len(suf) + 1, Len(s)) = suf

\* str.rfind(ch) as a 1-based position, 0 when ch does not occur
RFind(s, ch) ==
    LET hits == {i \in 1..Len(s) : s[i] = ch}
    IN IF hits = {} THEN 0 ELSE CHOOSE i \in hits : \A j \in hits : j <= i

\* characters str.strip() removes
IsSpace(c) == c \in {" ", "\t"}

\* str.strip()
Strip(s) ==
    LET keep == {i \in 1..Len(s) : ~IsSpace(s[i])}
    IN IF keep = {} THEN <<>>
       ELSE LET lo == CHOOSE i \in keep : \A j \in keep : i <= j
                hi == CHOOSE i \in keep : \A j \in keep : j <= i
            IN SubSeq(s, lo, hi)

\* str.replace(ch, "")
RECURSIVE Remove(_, _)
Remove(s, ch) ==
    IF s = <<>> THEN <<>>
    ELSE IF Head(s) = ch THEN Remove(Tail(s), ch)
    ELSE <<Head(s)>> \o Remove(Tail(s), ch)

_clean(value) ==
    IF value = NoneVal THEN <<>>
    ELSE Strip(Remove(Remove(value, "BOM"), "ZWSP"))

\* one decimal digit as a character
Digit(n) ==
    CASE n = 0 -> "0" [] n = 1 -> "1" [] n = 2 -> "2" [] n = 3 -> "3"
      [] n = 4 -> "4" [] n = 5 -> "5" [] n = 6 -> "6" [] n = 7 -> "7"
      [] n = 8 -> "8" [] n = 9 -> "9"

\* f"{idx:03d}"
Fmt3(n) == <<Digit((n \div 100) % 10), Digit((n \div 10) % 10), Digit(n % 10)>>

\* --------------------------------------------------------------------------
\* Paths (relative to output_dir, "/" separated)
\* --------------------------------------------------------------------------

\* Path(p).name : the last component
PathName(p) == SubSeq(p, RFind(p, "/") + 1, Len(p))

\* Path(p).parent : everything before the last separator
PathParent(p) ==
    IF RFind(p, "/") = 0 THEN <<>> ELSE SubSeq(p, 1, RFind(p, "/") - 1)

\* Path(p).suffix : the last dot of the name starts it, unless that dot is the
\* first or the last character of the name
PathSuffix(p) ==
    LET name == PathName(p)
        i == RFind(name, ".")
    IN IF i > 1 /\ i < Len(name) THEN SubSeq(name, i, Len(name)) ELSE <<>>

\* Path(p).stem : the name without its suffix
PathStem(p) ==
    LET name == PathName(p)
    IN SubSeq(name, 1, Len(name) - Len(PathSuffix(p)))

\* --------------------------------------------------------------------------
\* Configuration and inputs
\* --------------------------------------------------------------------------

\* config.audio_format of the runs modelled (the test suite builds "wav")
audio_format == <<"w", "a", "v">>

\* config.csv_path.stem.replace(" ", "_") for the table deck.csv
base_name == <<"d", "e", "c", "k">>

Devices == {"cuda", "cpu"}

\* config.device_preference: the lists a caller passes.  The list is read once,
\* when the engine is placed, and is chosen there
DevicePreferences == {<<"cuda", "cpu">>, <<"cuda">>}

\* raw rows as csv.DictReader yields them, before cleaning: a row without an
\* Audio value, the nested name of the test suite, a row without Hanzi (its
\* line is short, so Audio is None), a name that is the temporary waveform of
\* row 2, a nested name that carries the extension in upper case, and a row
\* that gives the nested name of another row for a different text
RawRows ==
    { [Hanzi |-> <<" ", "A">>,    Audio |-> <<>>],
      [Hanzi |-> <<"B">>,         Audio |-> <<"d", "/", "a">>],
      [Hanzi |-> <<"BOM", " ">>,  Audio |-> NoneVal],
      [Hanzi |-> <<"A">>,         Audio |-> <<"t", "t", "s", "_", "0", "0", "2", ".", "w", "a", "v">>],
      [Hanzi |-> <<"B", "ZWSP">>, Audio |-> <<"d", "/", "a", ".", "W", "A", "V">>],
      [Hanzi |-> <<"A">>,         Audio |-> <<"d", "/", "a">>] }

RECURSIVE SeqsUpTo(_, _)
SeqsUpTo(S, n) ==
    IF n = 0 THEN {<<>>}
    ELSE LET shorter == SeqsUpTo(S, n - 1)
         IN shorter \cup {Append(t, x) : t \in {u \in shorter : Len(u) = n - 1}, x \in S}

\* the tables a run may read
Tables == SeqsUpTo(RawRows, MaxRows)

OldContent == <<"old">>

EmptyFs == [p \in {} |-> <<>>]

FileSet(paths) == [p \in paths |-> OldContent]

\* what output_dir holds before the build: nothing, or the files of an
\* earlier build
InitialDisks ==
    { [files |-> EmptyFs, dirs |-> {}],
      [files |-> FileSet({<<"d", "e", "c", "k", "_", "0", "0", "1", ".", "w", "a", "v">>,
                          <<"d", "e", "c", "k", "_", "0", "0", "2", ".", "w", "a", "v">>,
                          <<"d", "e", "c", "k", "_", "0", "0", "3", ".", "w", "a", "v">>,
                          <<"a", ".", "w", "a", "v">>,
                          <<"t", "t", "s", "_", "0", "0", "2", ".", "w", "a", "v">>,
                          <<"d", "/", "a", ".", "W", "A", "V">>}),
       dirs |-> {<<"d">>}] }

NoExc == [type |-> "", detail |-> "", row_errors |-> <<>>]

NoResult == [apkg_path |-> FALSE, media_files |-> <<>>, rows_processed |-> 0,
             row_errors |-> <<>>]

\* --------------------------------------------------------------------------
\* File system
\* --------------------------------------------------------------------------

\* Path.exists() below output_dir
Exists(files, ds, p) == p \in DOMAIN files \/ p \in ds

\* a file can be created at p when the directory that holds it exists
CanWrite(ds, p) == PathParent(p) = <<>> \/ PathParent(p) \in ds

WriteFile(files, p, content) == [q \in DOMAIN files \cup {p} |-> IF q = p THEN content ELSE files[q]]

\* Path.unlink(missing_ok=True)
Unlink(files, p) == [q \in DOMAIN files \ {p} |-> files[q]]

\* --------------------------------------------------------------------------
\* mandarin_anki.builder : helpers of the row loop
\* --------------------------------------------------------------------------

\* dict.get(key, default)
Get(row, key, default) == IF key \in DOMAIN row THEN row[key] ELSE default

\* _read_rows: every cell of every row is cleaned
CleanRow(raw) == [k \in DOMAIN raw |-> _clean(raw[k])]

CleanRows(table) == [i \in 1..Len(table) |-> CleanRow(table[i])]

\* mutant: the empty-Hanzi test is lost
HanziMissing_never(hanzi) == FALSE

\* "if not hanzi": the row is skipped
HanziMissing(hanzi) == hanzi = <<>>

Dot(ext) == <<".">> \o ext

\* mutant: a given Audio value is used as it is (as deck_builder.py does)
AudioName_keeps_given(audio_raw, i) ==
    IF audio_raw = <<>>
    THEN Lower(base_name) \o <<"_">> \o Fmt3(i) \o Dot(audio_format)
    ELSE audio_raw

\* the audio file name build_anki_deck settles on for row i
AudioName(audio_raw, i) ==
    IF audio_raw = <<>>
    THEN Lower(base_name) \o <<"_">> \o Fmt3(i) \o Dot(audio_format)
    ELSE IF ~EndsWith(Lower(audio_raw), Dot(audio_format))
         THEN PathStem(audio_raw) \o Dot(audio_format)
         ELSE audio_raw

\* config.output_dir / audio_name, relative to output_dir
AudioPath(audio_raw, i) == AudioName(audio_raw, i)

\* config.output_dir / f"tts_{idx:03d}.wav"
TmpWav(i) == <<"t", "t", "s", "_">> \o Fmt3(i) \o <<".", "w", "a", "v">>

\* mutant: the audio is synthesized whether or not the file exists
NeedsSynthesis_always(regen, files, ds, path) == TRUE

\* "if config.regenerate_audio_if_exists or not audio_path.exists()"
NeedsSynthesis(regen, files, ds, path) == regen \/ ~Exists(files, ds, path)

\* mutant: the entry carries the 0-based position
RowError_zero_based(errors, i, kind) == Append(errors, [row |-> i - 1, kind |-> kind])

\* mutant: the warning of a row is not recorded
RowError_dropped(errors, i, kind) == errors

\* row_errors.append(f"Baris {idx}: ..."): the entry carries the row position
RowError(errors, i, kind) == Append(errors, [row |-> i, kind |-> kind])

\* the loop "for device in preference: try: tts.to(device) ..." found no
\* device that accepts the model
PrefExhausted(pref, ok_devs) == \A k \in 1..Len(pref) : pref[k] \notin ok_devs

\* ensure_tts: the handle after the call; to(device) is tried in preference
\* order and the loop ends silently when no device accepts the model
EnsureTts(model, exhausted, calls, pref, ok_devs) ==
    IF model = 0
    THEN [tts_model |-> calls + 1,
          pref_exhausted |-> PrefExhausted(pref, ok_devs),
          create_calls |-> calls + 1]
    ELSE [tts_model |-> model, pref_exhausted |-> exhausted, create_calls |-> calls]

\* _render_audio once tts_to_file has written tmp_wav: mix, export to
\* final_path, unlink tmp_wav.  A failing export leaves tmp_wav behind.
RenderAudio(files, ds, tmp_wav, final_path, text, render_fails) ==
    LET voiced == WriteFile(files, tmp_wav, text)
    IN IF render_fails \/ ~CanWrite(ds, final_path)
       THEN [ok |-> FALSE, files |-> voiced]
       ELSE [ok |-> TRUE,
             files |-> Unlink(WriteFile(voiced, final_path, voiced[tmp_wav]), tmp_wav)]

\* the body of the try block for row i.  env says which calls of the
\* environment raise: [create, synth, render, note : BOOLEAN], the devices
\* that accept the model (ok_devs) and config.device_preference (pref)
RowBody(st, row, i, regen, env) ==
    LET hanzi == Get(row, "Hanzi", <<>>)
        audio_name == AudioName(Get(row, "Audio", <<>>), i)
        audio_path == AudioPath(Get(row, "Audio", <<>>), i)
        failed(s) == [s EXCEPT !.row_errors = RowError(st.row_errors, i, "exception")]
    IN IF HanziMissing(hanzi)
       THEN [st EXCEPT !.row_errors = RowError(st.row_errors, i, "empty")]
       ELSE
       LET synth == NeedsSynthesis(regen, st.fs, st.dirs, audio_path)
           created == IF synth /\ ~(st.tts_model = 0 /\ env.create)
                      THEN EnsureTts(st.tts_model, st.pref_exhausted, st.create_calls,
                                     env.pref, env.ok_devs)
                      ELSE [tts_model |-> st.tts_model, pref_exhausted |-> st.pref_exhausted,
                            create_calls |-> st.create_calls]
           call == [row |-> i, handle |-> created.tts_model, path |-> audio_path,
                    existed |-> Exists(st.fs, st.dirs, audio_path)]
           rendered == RenderAudio(st.fs, st.dirs, TmpWav(i), audio_path, hanzi, env.render)
           s1 == [st EXCEPT !.tts_model = created.tts_model,
                            !.pref_exhausted = created.pref_exhausted,
                            !.create_calls = created.create_calls]
       IN IF synth /\ st.tts_model = 0 /\ env.create
          THEN failed([st EXCEPT !.create_calls = st.create_calls + 1])
          ELSE IF synth /\ env.synth
          THEN failed([s1 EXCEPT !.synth_log = Append(st.synth_log, call)])
          ELSE IF synth /\ ~rendered.ok
          THEN failed([s1 EXCEPT !.synth_log = Append(st.synth_log, call),
                                 !.fs = rendered.files])
          ELSE
          LET s2 == IF synth
                    THEN [s1 EXCEPT !.synth_log = Append(st.synth_log, call),
                                    !.fs = rendered.files]
                    ELSE s1
              s3 == [s2 EXCEPT !.media_files = Append(st.media_files, audio_path)]
          IN IF env.note
             THEN failed(s3)
             ELSE [s3 EXCEPT !.notes = Append(st.notes,
                                 [row |-> i, Hanzi |-> hanzi, Audio |-> audio_name])]

\* the calls of the environment that may raise while a row is processed
RowEnvs == [create : BOOLEAN, synth : BOOLEAN, render : BOOLEAN, note : BOOLEAN,
            ok_devs : SUBSET Devices, pref : DevicePreferences]

\* the environments that differ in a call the row makes: a call that is not
\* reached cannot raise
ReachedEnvs(missing, synth, creates) ==
    { e \in RowEnvs :
        /\ (missing \/ ~synth \/ ~creates) => (~e.create /\ e.ok_devs = {} /\ e.pref = <<"cuda">>)
        /\ (missing \/ ~synth \/ e.create) => (~e.synth /\ ~e.render)
        /\ e.create => (e.ok_devs = {} /\ e.pref = <<"cuda">>)
        /\ e.synth => ~e.render
        /\ (missing \/ e.create \/ e.synth \/ e.render) => ~e.note }

\* the part of the state the try block works on
LoopState == [fs |-> fs, dirs |-> dirs, tts_model |-> tts_model, pref_exhausted |-> pref_exhausted,
              create_calls |-> create_calls, synth_log |-> synth_log,
              media_files |-> media_files, notes |-> notes, row_errors |-> row_errors]

\* Package.write_to_file adds every media file to the archive and raises on a
\* path that is not there
PackageWritable(files, ds, media) == \A k \in 1..Len(media) : Exists(files, ds, media[k])

\* mutant: the warnings are not handed to the exception
DeckBuildError_drops_row_errors(detail, errors) ==
    [type |-> "DeckBuildError", detail |-> detail, row_errors |-> <<>>]

\* DeckBuildError.__init__: self.row_errors = row_errors or []
DeckBuildError(detail, errors) ==
    [type |-> "DeckBuildError", detail |-> detail, row_errors |-> errors]

\* mutant: row events count from zero (as the "processing" events of
\* deck_builder.py do)
Event_rows_from_zero(stage, current, total) ==
    [stage |-> stage, current |-> IF stage = "row" THEN current - 1 ELSE current,
     total |-> total]

\* ProgressEvent(stage=stage, current=current, total=total, ...)
Event(stage, current, total) == [stage |-> stage, current |-> current, total |-> total]

\* --------------------------------------------------------------------------
\* Initial state: a configuration, a callback or none, a disk
\* --------------------------------------------------------------------------

Entries == {"core", "ui", "audio"}

\* render_template is not running
RenderIdle ==
    /\ template = <<>>
    /\ fields = <<>>
    /\ front_side = <<>>
    /\ media_map = {}
    /\ tpl_text = <<>>
    /\ render_pc = "idle"
    /\ reductions = <<>>

\* _literal_to_br is not running
LiteralIdle ==
    /\ literal_text = <<>>
    /\ literal_enable = FALSE
    /\ literal_once = <<>>
    /\ literal_twice = <<>>
    /\ literal_pc = "idle"

\* load_apkg_preview is not running
PreviewIdle ==
    /\ apkg = <<>>
    /\ preview_pc = "idle"
    /\ preview_exc = "none"
    /\ cards = <<>>

\* columns=None: the caller gives no override
NoOverride == [none |-> TRUE, items |-> <<>>]

\* no column mapping is computed
ColumnsIdle ==
    /\ col_builder = "none"
    /\ col_override = NoOverride
    /\ col_mapping = <<>>
    /\ col_pc = "idle"

\* no ambient track is mixed
AmbientIdle ==
    /\ amb_impl = "none"
    /\ amb_voice = 0
    /\ amb_sample = 0
    /\ amb_len = 0
    /\ amb_looped = 0
    /\ amb_mixed = 0
    /\ amb_iters = 0
    /\ amb_pc = "idle"
    /\ amb_exc = "none"

\* no upload is previewed or built
UploadIdle ==
    /\ up_name = <<>>
    /\ up_rows = <<>>
    /\ pv_rows = <<>>
    /\ bd_notes = <<>>
    /\ agree_pc = "idle"

Init ==
    /\ RenderIdle
    /\ LiteralIdle
    /\ PreviewIdle
    /\ ColumnsIdle
    /\ AmbientIdle
    /\ UploadIdle
    /\ entry \in Entries
    /\ pc = "start"
    /\ outcome = "running"
    /\ exc = NoExc
    /\ regenerate \in BOOLEAN
    /\ speaker_exists \in BOOLEAN
    /\ csv_exists \in BOOLEAN
    /\ has_callback \in BOOLEAN
    /\ rows = <<>>
    /\ rows_read = FALSE
    /\ out_dir_made = FALSE
    /\ \E disk \in InitialDisks : fs = disk.files /\ dirs = disk.dirs /\ fs0 = disk.files
    /\ idx = 0
    /\ notes = <<>>
    /\ media_files = <<>>
    /\ row_errors = <<>>
    /\ events = <<>>
    /\ tts_model = 0
    /\ pref_exhausted = FALSE
    /\ create_calls = 0
    /\ synth_log = <<>>
    /\ apkg_written = FALSE
    /\ result = NoResult

\* no deck builder is running
BuildIdle ==
    /\ entry = "none"
    /\ pc = "idle"
    /\ outcome = "idle"
    /\ exc = NoExc
    /\ regenerate = FALSE
    /\ speaker_exists = FALSE
    /\ csv_exists = FALSE
    /\ has_callback = FALSE
    /\ rows = <<>>
    /\ rows_read = FALSE
    /\ out_dir_made = FALSE
    /\ fs = EmptyFs /\ dirs = {} /\ fs0 = EmptyFs
    /\ idx = 0
    /\ notes = <<>>
    /\ media_files = <<>>
    /\ row_errors = <<>>
    /\ events = <<>>
    /\ tts_model = 0
    /\ pref_exhausted = FALSE
    /\ create_calls = 0
    /\ synth_log = <<>>
    /\ apkg_written = FALSE
    /\ result = NoResult

\* the variables of the deck builders
build_vars == <<entry, pc, outcome, exc, regenerate, speaker_exists, csv_exists,
                has_callback, rows, rows_read, out_dir_made, fs, dirs, fs0, idx, notes,
                media_files, row_errors, events, tts_model, pref_exhausted,
                create_calls, synth_log, apkg_written, result>>

\* everything but the variables of render_template
not_render_vars == <<build_vars, literal_vars, preview_vars, columns_vars, ambient_vars, upload_vars>>

\* everything but the variables of _literal_to_br
not_literal_vars == <<build_vars, render_vars, preview_vars, columns_vars, ambient_vars, upload_vars>>

\* everything but the variables of load_apkg_preview
not_preview_vars == <<build_vars, render_vars, literal_vars, columns_vars, ambient_vars, upload_vars>>

\* everything but the variables of the column mapping
not_columns_vars == <<build_vars, render_vars, literal_vars, preview_vars, ambient_vars, upload_vars>>

\* everything but the variables of the ambient mixing step
not_ambient_vars == <<build_vars, render_vars, literal_vars, preview_vars, columns_vars, upload_vars>>

\* everything but the variables of the preview and the build of one upload
not_upload_vars == <<build_vars, render_vars, literal_vars, preview_vars, columns_vars,
                     ambient_vars>>

config_vars == <<entry, regenerate, speaker_exists, csv_exists, has_callback, fs0>>

loop_vars == <<fs, dirs, tts_model, pref_exhausted, create_calls, synth_log,
               media_files, notes, row_errors>>

\* the entry point is left by an exception
Raise(e) ==
    /\ outcome' = "raised"
    /\ exc' = e
    /\ pc' = "done"

\* control goes on at next_pc
Goto(next_pc) ==
    /\ pc' = next_pc
    /\ UNCHANGED <<outcome, exc>>

\* _notify(callback, stage, ...): nothing without a callback; otherwise the
\* callback receives the event and either returns, and the entry point goes
\* on with go_on, or raises, and the exception leaves the entry point
Notify(ev, go_on) ==
    IF ~has_callback
    THEN /\ events' = events
         /\ go_on
    ELSE /\ events' = Append(events, ev)
         /\ \/ go_on
            \/ Raise([type |-> "CallbackError", detail |-> ev.stage, row_errors |-> <<>>])

\* --------------------------------------------------------------------------
\* mandarin_anki.builder.build_anki_deck
\* --------------------------------------------------------------------------

\* mutant: the speaker sample is not checked on entry (anki_builder.py checks
\* it only after the table was read)
SpeakerMissing_unchecked(exists) == FALSE

\* "if not config.speaker_wav.exists()"
SpeakerMissing(exists) == ~exists

\* lines 222-223: the speaker sample must exist
CheckSpeaker ==
    /\ entry = "core" /\ pc = "start"
    /\ IF SpeakerMissing(speaker_exists)
       THEN Raise(DeckBuildError("speaker_wav", <<>>))
       ELSE /\ pc' = "read"
            /\ UNCHANGED <<outcome, exc>>
    /\ UNCHANGED <<config_vars, util_vars, loop_vars, rows, rows_read, out_dir_made, idx, events,
                   apkg_written, result>>

\* lines 225-230: _read_rows, then output_dir.mkdir
ReadRows ==
    /\ entry = "core" /\ pc = "read"
    /\ IF ~csv_exists
       THEN /\ Raise(DeckBuildError("csv_path", <<>>))
            /\ UNCHANGED <<rows, rows_read, out_dir_made>>
       ELSE \E table \in Tables :
              /\ rows_read' = TRUE
              /\ IF table = <<>>
                 THEN /\ Raise(DeckBuildError("empty", <<>>))
                      /\ UNCHANGED <<rows, out_dir_made>>
                 ELSE /\ rows' = CleanRows(table)
                      /\ out_dir_made' = TRUE
                      /\ pc' = "notify_init"
                      /\ UNCHANGED <<outcome, exc>>
    /\ UNCHANGED <<config_vars, util_vars, loop_vars, idx, events, apkg_written, result>>

\* line 232
NotifyInit ==
    /\ entry = "core" /\ pc = "notify_init"
    /\ Notify(Event("init", 0, Len(rows)), Goto("notify_rows"))
    /\ UNCHANGED <<config_vars, util_vars, loop_vars, rows, rows_read, out_dir_made, idx,
                   apkg_written, result>>

\* lines 234-309: model, deck, empty lists, then the "rows" event
NotifyRows ==
    /\ entry = "core" /\ pc = "notify_rows"
    /\ Notify(Event("rows", 0, Len(rows)), Goto("row"))
    /\ UNCHANGED <<config_vars, util_vars, loop_vars, rows, rows_read, out_dir_made, idx,
                   apkg_written, result>>

\* lines 311-376: enumerate yields the next row; the try block of that row
\* runs, with its except clause
ProcessRow ==
    /\ entry = "core" /\ pc = "row"
    /\ idx' = idx + 1
    /\ LET row == rows[idx + 1]
           missing == HanziMissing(Get(row, "Hanzi", <<>>))
           synth == NeedsSynthesis(regenerate, fs, dirs,
                                   AudioPath(Get(row, "Audio", <<>>), idx + 1))
       IN \E env \in ReachedEnvs(missing, synth, tts_model = 0) :
            LET st == RowBody(LoopState, row, idx + 1, regenerate, env)
            IN /\ fs' = st.fs
               /\ dirs' = st.dirs
               /\ tts_model' = st.tts_model
               /\ pref_exhausted' = st.pref_exhausted
               /\ create_calls' = st.create_calls
               /\ synth_log' = st.synth_log
               /\ media_files' = st.media_files
               /\ notes' = st.notes
               /\ row_errors' = st.row_errors
    /\ pc' = "notify_row"
    /\ UNCHANGED <<config_vars, util_vars, outcome, exc, rows, rows_read, out_dir_made, events,
                   apkg_written, result>>

\* lines 377-378: the finally clause, then the next row or the end of the loop
NotifyRow ==
    /\ entry = "core" /\ pc = "notify_row"
    /\ Notify(Event("row", idx, Len(rows)), Goto(IF idx < Len(rows) THEN "row" ELSE "package"))
    /\ UNCHANGED <<config_vars, util_vars, loop_vars, rows, rows_read, out_dir_made, idx,
                   apkg_written, result>>

\* lines 380-385: no note, no deck; otherwise the archive is written
WritePackage ==
    /\ entry = "core" /\ pc = "package"
    /\ IF notes = <<>>
       THEN /\ Raise(DeckBuildError("no cards", row_errors))
            /\ UNCHANGED apkg_written
       ELSE IF ~PackageWritable(fs, dirs, media_files)
       THEN /\ Raise([type |-> "FileNotFoundError", detail |-> "media", row_errors |-> <<>>])
            /\ UNCHANGED apkg_written
       ELSE /\ apkg_written' = TRUE
            /\ pc' = "notify_complete"
            /\ UNCHANGED <<outcome, exc>>
    /\ UNCHANGED <<config_vars, util_vars, loop_vars, rows, rows_read, out_dir_made, idx, events,
                   result>>

\* the DeckBuildResult of lines 389-394
BuildResult(media, deck_notes, errors) ==
    [apkg_path |-> TRUE, media_files |-> media, rows_processed |-> Len(deck_notes),
     row_errors |-> errors]

\* lines 387-394: the "complete" event, then the result is returned
NotifyComplete ==
    /\ entry = "core" /\ pc = "notify_complete"
    /\ Notify(Event("complete", 0, 0),
              pc' = "done" /\ outcome' = "returned" /\ UNCHANGED exc)
    /\ result' = IF outcome' = "returned"
                 THEN BuildResult(media_files, notes, row_errors)
                 ELSE result
    /\ UNCHANGED <<config_vars, util_vars, loop_vars, rows, rows_read, out_dir_made, idx,
                   apkg_written>>

\* --------------------------------------------------------------------------
\* mandarin_anki_ui.deck_builder.build_anki_deck
\* --------------------------------------------------------------------------

\* line 271: a given Audio value is used as it is, a missing one is derived
\* with the fixed extension mp3
UiAudioName(audio_raw, i) ==
    IF audio_raw = <<>>
    THEN Lower(base_name) \o <<"_">> \o Fmt3(i) \o <<".", "m", "p", "3">>
    ELSE audio_raw

\* lines 121-131 and 169-176: _select_tts_device raises when every candidate
\* fails; build_anki_deck then tries "cpu" once more and gives up when that
\* fails too
UiDeviceFatal(pref, ok_devs) == PrefExhausted(pref, ok_devs) /\ "cpu" \notin ok_devs

\* lines 289-300: engine.render mixes and exports, then tmp_wav is unlinked;
\* a failing render leaves tmp_wav behind
UiRenderAudio(files, ds, tmp_wav, final_path, text, render_fails) ==
    LET voiced == WriteFile(files, tmp_wav, text)
    IN IF render_fails \/ ~CanWrite(ds, final_path)
       THEN [ok |-> FALSE, files |-> voiced]
       ELSE [ok |-> TRUE,
             files |-> Unlink(WriteFile(voiced, final_path, voiced[tmp_wav]), tmp_wav)]

\* lines 260-331: the try block of one row with its except clause; the engine
\* was created before the loop
UiRowBody(st, row, i, regen, env) ==
    LET hanzi == Get(row, "Hanzi", <<>>)
        audio == UiAudioName(Get(row, "Audio", <<>>), i)
        failed(s) == [s EXCEPT !.row_errors = RowError(st.row_errors, i, "exception")]
    IN IF HanziMissing(hanzi)
       THEN [st EXCEPT !.row_errors = RowError(st.row_errors, i, "empty")]
       ELSE
       LET synth == NeedsSynthesis(regen, st.fs, st.dirs, audio)
           call == [row |-> i, handle |-> st.tts_model, path |-> audio,
                    existed |-> Exists(st.fs, st.dirs, audio)]
           rendered == UiRenderAudio(st.fs, st.dirs, TmpWav(i), audio, hanzi, env.render)
       IN IF synth /\ env.synth
          THEN failed([st EXCEPT !.synth_log = Append(st.synth_log, call)])
          ELSE IF synth /\ ~rendered.ok
          THEN failed([st EXCEPT !.synth_log = Append(st.synth_log, call),
                                 !.fs = rendered.files])
          ELSE
          LET s2 == IF synth
                    THEN [st EXCEPT !.synth_log = Append(st.synth_log, call),
                                    !.fs = rendered.files]
                    ELSE st
              s3 == [s2 EXCEPT !.media_files = Append(st.media_files, audio)]
          IN IF env.note
             THEN failed(s3)
             ELSE [s3 EXCEPT !.notes = Append(st.notes,
                                 [row |-> i, Hanzi |-> hanzi, Audio |-> audio])]

PyError(type, detail) == [type |-> type, detail |-> detail, row_errors |-> <<>>]

\* lines 151-156: both input files must exist, then output_dir is created
UiCheckInputs ==
    /\ entry = "ui" /\ pc = "start"
    /\ IF ~csv_exists
       THEN Raise(PyError("FileNotFoundError", "csv_path")) /\ UNCHANGED out_dir_made
       ELSE IF ~speaker_exists
       THEN Raise(PyError("FileNotFoundError", "speaker_wav")) /\ UNCHANGED out_dir_made
       ELSE Goto("read") /\ out_dir_made' = TRUE
    /\ UNCHANGED <<config_vars, util_vars, loop_vars, rows, rows_read, idx, events, apkg_written,
                   result>>

\* lines 159-162: _read_rows; a table without data rows is refused
UiReadRows ==
    /\ entry = "ui" /\ pc = "read"
    /\ \E table \in Tables :
         /\ rows_read' = TRUE
         /\ IF table = <<>>
            THEN Raise(PyError("ValueError", "empty")) /\ UNCHANGED rows
            ELSE Goto("notify_init") /\ rows' = CleanRows(table)
    /\ UNCHANGED <<config_vars, util_vars, loop_vars, out_dir_made, idx, events, apkg_written, result>>

\* lines 164-165
UiNotifyInit ==
    /\ entry = "ui" /\ pc = "notify_init"
    /\ Notify(Event("init", 0, Len(rows)), Goto("tts"))
    /\ UNCHANGED <<config_vars, util_vars, loop_vars, rows, rows_read, out_dir_made, idx,
                   apkg_written, result>>

\* lines 167-176: the engine is created and placed before the loop; a factory
\* that raises and a model no device accepts end the build
UiCreateTts ==
    /\ entry = "ui" /\ pc = "tts"
    /\ \E create_fails \in BOOLEAN, ok_devs \in SUBSET Devices, pref \in DevicePreferences :
         /\ create_calls' = create_calls + 1
         /\ IF create_fails
            THEN /\ ok_devs = {} /\ pref = <<"cuda">>
                 /\ Raise(PyError("Exception", "create"))
                 /\ UNCHANGED <<tts_model, pref_exhausted>>
            ELSE /\ tts_model' = create_calls + 1
                 /\ pref_exhausted' = PrefExhausted(pref, ok_devs)
                 /\ IF UiDeviceFatal(pref, ok_devs)
                    THEN Raise(PyError("RuntimeError", "device"))
                    ELSE Goto("progress")
    /\ UNCHANGED <<config_vars, util_vars, fs, dirs, synth_log, media_files, notes, row_errors, rows,
                   rows_read, out_dir_made, idx, events, apkg_written, result>>

\* lines 256-258: enumerate yields the next row and the "processing" event
\* reports the rows done so far
UiNotifyProcessing ==
    /\ entry = "ui" /\ pc = "progress"
    /\ idx' = idx + 1
    /\ Notify(Event("processing", idx, Len(rows)), Goto("row"))
    /\ UNCHANGED <<config_vars, util_vars, loop_vars, rows, rows_read, out_dir_made, apkg_written,
                   result>>

\* lines 260-331
UiProcessRow ==
    /\ entry = "ui" /\ pc = "row"
    /\ LET row == rows[idx]
           missing == HanziMissing(Get(row, "Hanzi", <<>>))
           synth == NeedsSynthesis(regenerate, fs, dirs,
                                   UiAudioName(Get(row, "Audio", <<>>), idx))
       IN \E env \in ReachedEnvs(missing, synth, FALSE) :
            LET st == UiRowBody(LoopState, row, idx, regenerate, env)
            IN /\ fs' = st.fs
               /\ synth_log' = st.synth_log
               /\ media_files' = st.media_files
               /\ notes' = st.notes
               /\ row_errors' = st.row_errors
    /\ Goto(IF idx < Len(rows) THEN "progress" ELSE "package")
    /\ UNCHANGED <<config_vars, util_vars, dirs, tts_model, pref_exhausted, create_calls, rows,
                   rows_read, out_dir_made, idx, events, apkg_written, result>>

\* lines 333-339: no processed row, no deck; otherwise the archive is written
UiWritePackage ==
    /\ entry = "ui" /\ pc = "package"
    /\ IF Len(notes) = 0
       THEN Raise(PyError("RuntimeError", "no cards")) /\ UNCHANGED apkg_written
       ELSE IF ~PackageWritable(fs, dirs, media_files)
       THEN Raise(PyError("FileNotFoundError", "media")) /\ UNCHANGED apkg_written
       ELSE Goto("notify_final") /\ apkg_written' = TRUE
    /\ UNCHANGED <<config_vars, util_vars, loop_vars, rows, rows_read, out_dir_made, idx, events,
                   result>>

\* lines 341-350: the "finalizing" event, then the result is returned
UiNotifyFinal ==
    /\ entry = "ui" /\ pc = "notify_final"
    /\ Notify(Event("finalizing", Len(rows), Len(rows)),
              pc' = "done" /\ outcome' = "returned" /\ UNCHANGED exc)
    /\ result' = IF outcome' = "returned"
                 THEN BuildResult(media_files, notes, row_errors)
                 ELSE result
    /\ UNCHANGED <<config_vars, util_vars, loop_vars, rows, rows_read, out_dir_made, idx,
                   apkg_written>>

\* --------------------------------------------------------------------------
\* mandarin_anki.audio_engine.generate_audio_from_text
\* --------------------------------------------------------------------------

\* config.text values a caller passes
AudioTexts == {<<>>, <<" ">>, <<" ", "A">>}

\* config.output_path, relative to its own directory
OutputPath == <<"o", "u", "t", ".", "w", "a", "v">>

\* line 102: output_path.with_name(f"{output_path.stem}_tmp.wav")
AudioTmpWav(path) == PathStem(path) \o <<"_", "t", "m", "p", ".", "w", "a", "v">>

\* lines 78-93: the text and the speaker sample are checked, the directory of
\* the output file is created
AudioValidate ==
    /\ entry = "audio" /\ pc = "start"
    /\ \E text \in AudioTexts :
         IF Strip(text) = <<>>
         THEN Raise(DeckBuildError("text", <<>>)) /\ UNCHANGED <<rows, out_dir_made>>
         ELSE IF SpeakerMissing(speaker_exists)
         THEN Raise(DeckBuildError("speaker_wav", <<>>)) /\ UNCHANGED <<rows, out_dir_made>>
         ELSE /\ Goto("tts")
              /\ rows' = <<[Hanzi |-> Strip(text)]>>
              /\ out_dir_made' = TRUE
    /\ UNCHANGED <<config_vars, util_vars, loop_vars, rows_read, idx, events, apkg_written, result>>

\* lines 55-68 and 95-100: _prepare_tts creates the engine and tries the
\* devices in order; the loop ends silently when none accepts the model
AudioPrepareTts ==
    /\ entry = "audio" /\ pc = "tts"
    /\ \E create_fails \in BOOLEAN, ok_devs \in SUBSET Devices, pref \in DevicePreferences :
         /\ create_calls' = create_calls + 1
         /\ IF create_fails
            THEN /\ ok_devs = {} /\ pref = <<"cuda">>
                 /\ Raise(PyError("Exception", "create"))
                 /\ UNCHANGED <<tts_model, pref_exhausted>>
            ELSE /\ tts_model' = create_calls + 1
                 /\ pref_exhausted' = PrefExhausted(pref, ok_devs)
                 /\ Goto("render")
    /\ UNCHANGED <<config_vars, util_vars, fs, dirs, synth_log, media_files, notes, row_errors, rows,
                   rows_read, out_dir_made, idx, events, apkg_written, result>>

\* lines 102-121: _render_audio, whose exceptions leave the function, then
\* the output path is returned
AudioRender ==
    /\ entry = "audio" /\ pc = "render"
    /\ \E synth_fails \in BOOLEAN, render_fails \in BOOLEAN :
         LET text == rows[1].Hanzi
             call == [row |-> 1, handle |-> tts_model, path |-> OutputPath,
                      existed |-> Exists(fs, dirs, OutputPath)]
             rendered == RenderAudio(fs, dirs, AudioTmpWav(OutputPath), OutputPath, text,
                                     render_fails)
         IN /\ synth_log' = Append(synth_log, call)
            /\ IF synth_fails
               THEN /\ ~render_fails
                    /\ Raise(PyError("Exception", "synthesis"))
                    /\ UNCHANGED <<fs, media_files, result>>
               ELSE IF ~rendered.ok
               THEN /\ Raise(PyError("Exception", "render"))
                    /\ fs' = rendered.files
                    /\ UNCHANGED <<media_files, result>>
               ELSE /\ pc' = "done" /\ outcome' = "returned" /\ UNCHANGED exc
                    /\ fs' = rendered.files
                    /\ media_files' = <<OutputPath>>
                    /\ result' = BuildResult(<<OutputPath>>, <<>>, <<>>)
    /\ UNCHANGED <<config_vars, util_vars, dirs, tts_model, pref_exhausted, create_calls, notes,
                   row_errors, rows, rows_read, out_dir_made, idx, events, apkg_written>>

Next ==
    \/ CheckSpeaker
    \/ ReadRows
    \/ NotifyInit
    \/ NotifyRows
    \/ ProcessRow
    \/ NotifyRow
    \/ WritePackage
    \/ NotifyComplete
    \/ UiCheckInputs
    \/ UiReadRows
    \/ UiNotifyInit
    \/ UiCreateTts
    \/ UiNotifyProcessing
    \/ UiProcessRow
    \/ UiWritePackage
    \/ UiNotifyFinal
    \/ AudioValidate
    \/ AudioPrepareTts
    \/ AudioRender

Spec == Init /\ [][Next]_vars

\* ==========================================================================
\* mandarin_anki.anki_preview.render_template
\*
\* Offsets into a text are 0-based as in the code: text[a:b] is Slice(text, a, b)
\* and str.find gives -1 when there is no occurrence.
\* ==========================================================================

\* text[a:b] for 0 <= a: the end is cut at the length of the text
Slice(s, a, b) ==
    LET hi == IF b > Len(s) THEN Len(s) ELSE b
    IN IF a >= hi THEN <<>> ELSE SubSeq(s, a + 1, hi)

\* text.find(pat, from)
Find(s, pat, from) ==
    LET hits == {i \in from..(Len(s) - Len(pat)) : Slice(s, i, i + Len(pat)) = pat}
    IN IF hits = {} THEN -1 ELSE CHOOSE i \in hits : \A j \in hits : i <= j

\* the characters the class [^{}] excludes
IsBrace(c) == c \in {"{", "}"}

\* the length of the longest run of [^{}] characters of s that starts at offset i
RECURSIVE RunLen(_, _)
RunLen(s, i) ==
    IF i < Len(s) /\ ~IsBrace(s[i + 1]) THEN 1 + RunLen(s, i + 1) ELSE 0

\* f"{{{{/{field}}}}}", f"{{{{#{field}}}}}", f"{{{{^{field}}}}}"
CloseTag(field) == <<"{", "{", "/">> \o field \o <<"}", "}">>
OpenHash(field) == <<"{", "{", "#">> \o field \o <<"}", "}">>
OpenCaret(field) == <<"{", "{", "^">> \o field \o <<"}", "}">>

\* SECTION_RE = {{([#^])([^{}]+)}} matches s at offset i: the greedy class
\* takes the whole run, and }} has to follow it
SectionAt(s, i) ==
    /\ i + 3 <= Len(s)
    /\ s[i + 1] = "{" /\ s[i + 2] = "{" /\ s[i + 3] \in {"#", "^"}
    /\ LET n == RunLen(s, i + 3)
       IN /\ n >= 1
          /\ i + 3 + n + 2 <= Len(s)
          /\ s[i + 3 + n + 1] = "}" /\ s[i + 3 + n + 2] = "}"

\* mutant: the search gives the rightmost match
SECTION_RE_rightmost(s) ==
    LET hits == {i \in 0..Len(s) : SectionAt(s, i)}
    IN IF hits = {}
       THEN [found |-> FALSE, start |-> -1, end |-> -1, tag_type |-> "", raw_field |-> <<>>]
       ELSE LET i == CHOOSE k \in hits : \A j \in hits : k >= j
                n == RunLen(s, i + 3)
            IN [found |-> TRUE, start |-> i, end |-> i + 3 + n + 2,
                tag_type |-> s[i + 3], raw_field |-> Slice(s, i + 3, i + 3 + n)]

\* SECTION_RE.search(text): the leftmost match, as
\* [found, start = match.start(), end = match.end(), tag_type, raw_field]
SECTION_RE(s) ==
    LET hits == {i \in 0..Len(s) : SectionAt(s, i)}
    IN IF hits = {}
       THEN [found |-> FALSE, start |-> -1, end |-> -1, tag_type |-> "", raw_field |-> <<>>]
       ELSE LET i == CHOOSE k \in hits : \A j \in hits : k <= j
                n == RunLen(s, i + 3)
            IN [found |-> TRUE, start |-> i, end |-> i + 3 + n + 2,
                tag_type |-> s[i + 3], raw_field |-> Slice(s, i + 3, i + 3 + n)]

\* the smaller of two offsets of which -1 means "no occurrence"
NextOpen(next_hash, next_caret) ==
    IF next_hash = -1 THEN next_caret
    ELSE IF next_caret = -1 THEN next_hash
    ELSE IF next_hash < next_caret THEN next_hash ELSE next_caret

\* the while loop of _extract_section, entered with depth > 0 and position idx:
\* an opening marker for the field before the next closing marker adds a level,
\* otherwise the closing marker ends one; scan lists the values idx takes
RECURSIVE ExtractLoop(_, _, _, _, _)
ExtractLoop(s, field, start, depth, i) ==
    LET next_close == Find(s, CloseTag(field), i)
        next_hash == Find(s, OpenHash(field), i)
        next_caret == Find(s, OpenCaret(field), i)
        next_open == NextOpen(next_hash, next_caret)
        deeper == ExtractLoop(s, field, start, depth + 1,
                              IF next_hash # -1 /\ next_hash = next_open
                              THEN next_open + Len(OpenHash(field))
                              ELSE next_open + Len(OpenCaret(field)))
        shallower == ExtractLoop(s, field, start, depth - 1,
                                 next_close + Len(CloseTag(field)))
    IN IF next_close = -1
       THEN [end |-> -1, inner |-> <<>>, scan |-> <<i>>]
       ELSE IF next_open # -1 /\ next_open < next_close
       THEN [deeper EXCEPT !.scan = <<i>> \o @]
       ELSE IF depth - 1 = 0
       THEN [end |-> next_close + Len(CloseTag(field)),
             inner |-> Slice(s, start, next_close),
             scan |-> <<i, next_close + Len(CloseTag(field))>>]
       ELSE [shallower EXCEPT !.scan = <<i>> \o @]

\* mutant: the first closing marker ends the section, no depth is tracked
_extract_section_first_close(s, field, start) ==
    LET next_close == Find(s, CloseTag(field), start)
    IN IF next_close = -1 THEN [end |-> -1, inner |-> <<>>, scan |-> <<start>>]
       ELSE [end |-> next_close + Len(CloseTag(field)),
             inner |-> Slice(s, start, next_close),
             scan |-> <<start, next_close + Len(CloseTag(field))>>]

\* mutant: a section without closing marker runs to the end of the text
_extract_section_open_ended(s, field, start) ==
    IF ExtractLoop(s, field, start, 1, start).end = -1
    THEN [end |-> Len(s), inner |-> Slice(s, start, Len(s)), scan |-> <<start, Len(s)>>]
    ELSE ExtractLoop(s, field, start, 1, start)

\* _extract_section(text, field, start) -> (end, inner)
_extract_section(s, field, start) == ExtractLoop(s, field, start, 1, start)

\* fields.get(name, "")
FieldGet(mapping, name) ==
    IF name \in DOMAIN mapping THEN mapping[name] ELSE <<>>

\* bool(value.strip())
Truthy(v) == Strip(v) # <<>>

\* mutant: a negated section is kept like a positive one
KeepsInner_ignores_tag(tag_type, truthy) == truthy

\* "inner if (truthy if tag_type == '#' else not truthy) else ''"
KeepsInner(tag_type, truthy) == IF tag_type = "#" THEN truthy ELSE ~truthy

\* mutant: a section that is kept stays in the text with its markers
SectionPass_keeps_markers(s, mapping) ==
    LET m == SECTION_RE(s)
        field_name == Strip(m.raw_field)
        ext == _extract_section(s, field_name, m.end)
        kept == KeepsInner(m.tag_type, Truthy(FieldGet(mapping, field_name)))
        stopped == [stop |-> TRUE, text |-> s, field |-> <<>>, tag_type |-> "",
                    start |-> -1, end |-> -1, kept |-> FALSE, inner |-> <<>>]
    IN IF ~m.found THEN stopped
       ELSE IF ext.end = -1 THEN [stopped EXCEPT !.start = m.start]
       ELSE [stop |-> FALSE,
             text |-> Slice(s, 0, m.start)
                      \o (IF kept THEN Slice(s, m.start, ext.end) ELSE <<>>)
                      \o Slice(s, ext.end, Len(s)),
             field |-> field_name, tag_type |-> m.tag_type,
             start |-> m.start, end |-> ext.end, kept |-> kept, inner |-> ext.inner]

\* one iteration of the loop of _render_sections on text s:
\* [stop, text, field, tag_type, start, end, kept, inner]; stop when there is
\* no opening marker or the first one has no closing marker
SectionPass(s, mapping) ==
    LET m == SECTION_RE(s)
        field_name == Strip(m.raw_field)
        ext == _extract_section(s, field_name, m.end)
        kept == KeepsInner(m.tag_type, Truthy(FieldGet(mapping, field_name)))
        stopped == [stop |-> TRUE, text |-> s, field |-> <<>>, tag_type |-> "",
                    start |-> -1, end |-> -1, kept |-> FALSE, inner |-> <<>>]
    IN IF ~m.found THEN stopped
       ELSE IF ext.end = -1 THEN [stopped EXCEPT !.start = m.start]
       ELSE [stop |-> FALSE,
             text |-> Slice(s, 0, m.start) \o (IF kept THEN ext.inner ELSE <<>>)
                      \o Slice(s, ext.end, Len(s)),
             field |-> field_name, tag_type |-> m.tag_type,
             start |-> m.start, end |-> ext.end, kept |-> kept, inner |-> ext.inner]

\* str.replace(old, new): every occurrence, left to right, without overlap
RECURSIVE Replace(_, _, _)
Replace(s, old, new) ==
    LET i == Find(s, old, 0)
    IN IF i = -1 THEN s
       ELSE Slice(s, 0, i) \o new \o Replace(Slice(s, i + Len(old), Len(s)), old, new)

\* the placeholder render_template splices the front side into
FrontSide == <<"{", "{", "F", "r", "o", "n", "t", "S", "i", "d", "e", "}", "}">>

\* html.escape on one character
EscapeChar(c) ==
    CASE c = "&" -> "&amp;"
      [] c = "<" -> "&lt;"
      [] c = ">" -> "&gt;"
      [] c = "\"" -> "&quot;"
      [] c = "'" -> "&#x27;"
      [] OTHER -> c

\* html.escape(value)
HtmlEscape(s) == [i \in 1..Len(s) |-> EscapeChar(s[i])]

\* \d
IsDigit(c) == c \in {"0", "1", "2", "3", "4", "5", "6", "7", "8", "9"}

\* the length of the run of digits of s that starts at offset i
RECURSIVE DigitRun(_, _)
DigitRun(s, i) ==
    IF i < Len(s) /\ IsDigit(s[i + 1]) THEN 1 + DigitRun(s, i + 1) ELSE 0

\* CLOZE_RE = {{c\d+::(.*?)(?:::(.*?))?}} at offset i, as [found, end, group1]:
\* the lazy first group ends at the first offset where either "::" with a later
\* "}}" or "}}" itself follows
ClozeAt(s, i) ==
    LET none == [found |-> FALSE, end |-> -1, group1 |-> <<>>]
        d == DigitRun(s, i + 3)
        p == i + 3 + d + 2
        ends == {q \in p..Len(s) :
                   \/ Slice(s, q, q + 2) = <<"}", "}">>
                   \/ Slice(s, q, q + 2) = <<":", ":">>
                      /\ Find(s, <<"}", "}">>, q + 2) # -1}
    IN IF ~(Slice(s, i, i + 3) = <<"{", "{", "c">> /\ d >= 1
            /\ Slice(s, i + 3 + d, p) = <<":", ":">>)
       THEN none
       ELSE IF ends = {} THEN none
       ELSE LET q == CHOOSE k \in ends : \A j \in ends : k <= j
            IN [found |-> TRUE,
                end |-> IF Slice(s, q, q + 2) = <<"}", "}">> THEN q + 2
                        ELSE Find(s, <<"}", "}">>, q + 2) + 2,
                group1 |-> Slice(s, p, q)]

\* _apply_cloze(value): CLOZE_RE.sub from offset i on
RECURSIVE ClozeSub(_, _)
ClozeSub(s, i) ==
    IF i >= Len(s) THEN <<>>
    ELSE LET m == ClozeAt(s, i)
         IN IF m.found
            THEN <<"<span class='cloze'>">> \o m.group1 \o <<"</span>">>
                 \o ClozeSub(s, m.end)
            ELSE <<s[i + 1]>> \o ClozeSub(s, i + 1)

_apply_cloze(v) == ClozeSub(v, 0)

\* the name inside the placeholder that is not looked up in the mapping
FrontSideName == <<"F", "r", "o", "n", "t", "S", "i", "d", "e">>

\* mutant: every placeholder is looked up under the name "X"
_replace_field_fixed_name(group, mapping) == FieldGet(mapping, <<"X">>)

\* _replace_field(match, fields) for match.group(1) = group
_replace_field(group, mapping) ==
    LET expr == Strip(group)
        colon == Find(expr, <<":">>, 0)
        prefix == Lower(Strip(Slice(expr, 0, colon)))
        field_name == Strip(Slice(expr, colon + 1, Len(expr)))
        v == FieldGet(mapping, field_name)
    IN IF expr = <<>> THEN <<>>
       ELSE IF colon # -1
       THEN CASE prefix = <<"t", "e", "x", "t">> -> HtmlEscape(v)
              [] prefix = <<"t", "y", "p", "e">> ->
                     <<"<span class=\"typeAnswer\">">> \o v \o <<"</span>">>
              [] prefix = <<"c", "l", "o", "z", "e">> -> _apply_cloze(v)
              [] OTHER -> v
       ELSE IF expr = FrontSideName THEN <<>>
       ELSE FieldGet(mapping, expr)

\* FIELD_RE = {{([^{}]+)}} matches s at offset i
FieldAt(s, i) ==
    /\ i + 2 <= Len(s)
    /\ s[i + 1] = "{" /\ s[i + 2] = "{"
    /\ LET n == RunLen(s, i + 2)
       IN /\ n >= 1
          /\ i + 2 + n + 2 <= Len(s)
          /\ s[i + 2 + n + 1] = "}" /\ s[i + 2 + n + 2] = "}"

\* FIELD_RE.sub(lambda m: _replace_field(m, fields), rendered) from offset i on;
\* a replacement is not scanned again
RECURSIVE FIELD_RE_sub(_, _, _)
FIELD_RE_sub(s, i, mapping) ==
    IF i >= Len(s) THEN <<>>
    ELSE IF FieldAt(s, i)
    THEN LET n == RunLen(s, i + 2)
         IN _replace_field(Slice(s, i + 2, i + 2 + n), mapping)
            \o FIELD_RE_sub(s, i + 2 + n + 2, mapping)
    ELSE <<s[i + 1]>> \o FIELD_RE_sub(s, i + 1, mapping)

\* "[sound:"
SoundOpen == <<"[", "s", "o", "u", "n", "d", ":">>

\* the length of the run of [^\]] characters of s that starts at offset i
RECURSIVE NameRun(_, _)
NameRun(s, i) ==
    IF i < Len(s) /\ s[i + 1] # "]" THEN 1 + NameRun(s, i + 1) ELSE 0

\* SOUND_RE = \[sound:([^\]]+)\] matches s at offset i
SoundAt(s, i) ==
    /\ Slice(s, i, i + Len(SoundOpen)) = SoundOpen
    /\ LET n == NameRun(s, i + Len(SoundOpen))
       IN n >= 1 /\ i + Len(SoundOpen) + n < Len(s)

\* the replacement of one sound reference: the flagged placeholder when the
\* media map has no bytes for the file, the audio element otherwise (the
\* base64 text of the file's bytes is written as the file name)
SoundEmbed(filename, media) ==
    IF filename \notin media
    THEN <<"<span class=\"missing-media\">">> \o SoundOpen \o HtmlEscape(filename)
         \o <<"]", "</span>">>
    ELSE <<"<audio>", "<source src='data:">> \o filename \o <<"'>", "</audio>">>

\* _replace_sound_refs(text, media_map) from offset i on
RECURSIVE _replace_sound_refs(_, _, _)
_replace_sound_refs(s, i, media) ==
    IF i >= Len(s) THEN <<>>
    ELSE IF SoundAt(s, i)
    THEN LET n == NameRun(s, i + Len(SoundOpen))
         IN SoundEmbed(Slice(s, i + Len(SoundOpen), i + Len(SoundOpen) + n), media)
            \o _replace_sound_refs(s, i + Len(SoundOpen) + n + 1, media)
    ELSE <<s[i + 1]>> \o _replace_sound_refs(s, i + 1, media)

\* --------------------------------------------------------------------------
\* Templates and mappings render_template is called with
\* --------------------------------------------------------------------------

\* deepest nesting of sections in a template
MaxDepth == 2

\* the field names the sections of the templates use
SectionFields == {<<"X">>, <<"Y">>}

\* the opening markers: {{#F}} and {{^F}} for each field
Openers ==
    {[field |-> f, open |-> OpenHash(f)] : f \in SectionFields}
    \cup {[field |-> f, open |-> OpenCaret(f)] : f \in SectionFields}

\* well-formed markup with sections nested at most d deep: plain text, or a
\* section around markup one level less deep, followed by plain text or nothing
RECURSIVE Bodies(_)
Bodies(d) ==
    IF d = 0 THEN {<<"a">>}
    ELSE Bodies(d - 1)
         \cup {o.open \o b \o CloseTag(o.field) \o t :
                 o \in Openers, b \in Bodies(d - 1), t \in {<<>>, <<"b">>}}

\* markup that may follow an opening marker that is never closed
Tails ==
    {<<>>, <<"a">>, OpenHash(<<"X">>) \o <<"a">> \o CloseTag(<<"X">>),
     OpenCaret(<<"Y">>) \o <<"a">> \o CloseTag(<<"Y">>)}

\* markup with an opening marker that has no closing marker of its own:
\* nothing or well-formed markup, the marker, a tail
Unterminated ==
    {w.before \o w.marker.open \o w.after :
       w \in [before : Bodies(1) \cup {<<>>}, marker : Openers, after : Tails]}

\* a section around an opening marker that has no closing marker of its own
NestedUnterminated ==
    {w.outer.open \o w.marker.open \o <<"a">> \o CloseTag(w.outer.field) \o w.after :
       w \in [outer : Openers, marker : Openers, after : {<<>>, <<"b">>}]}

\* {{F}}
Placeholder(name) == <<"{", "{">> \o name \o <<"}", "}">>

\* "[sound:s]"
SoundRef == SoundOpen \o <<"s", "]">>

\* names a mapping may carry: a plain name, the same name after a blank, the
\* reserved name, names with a colon, a name that starts like a section
\* marker, a name with a brace, the empty name
FieldNames ==
    {<<"X">>, <<" ", "X">>, FrontSideName, <<"a", ":", "X">>,
     <<"T", "e", "x", "t", ":", "X">>, <<"#", "X">>, <<"}", "X">>, <<>>}

\* values a named field may carry
FieldValues ==
    {<<>>, <<"v">>, <<" ", "v", " ">>, <<"<">>, Placeholder(<<"X">>), SoundRef}

\* mappings for the section templates: X and Y are missing, blank or filled
SectionMappings ==
    {[f \in d |-> IF f = <<"X">> THEN x ELSE <<"v">>] :
       d \in SUBSET SectionFields, x \in {<<>>, <<" ">>, <<"v">>}}

\* mappings for the placeholder templates: the named field and the field X
PlaceholderMappings(name) ==
    {[f \in {name, <<"X">>} |-> IF f = name THEN v ELSE <<"w">>] : v \in FieldValues}

\* front markup an answer template is rendered with: none, plain text, what
\* render_template returns for a question template that holds a sound
\* reference the archive has no bytes for, and markup that holds a
\* placeholder or a sound reference
FrontMarkups ==
    {<<>>, <<"f">>, SoundEmbed(<<"s">>, {}), Placeholder(<<"X">>), SoundRef}

\* answer templates: the front side before or after markup of their own
AnswerTemplates ==
    {FrontSide, FrontSide \o <<"a">>, <<"a">> \o FrontSide \o Placeholder(<<"X">>),
     FrontSide \o SoundRef, FrontSide \o <<"a">> \o FrontSide}

\* the calls _load_collection makes for the answer side of a card
AnswerCalls ==
    {[template |-> t, fields |-> [f \in {<<"X">>} |-> x], front_side |-> fs_,
      media_map |-> mm] :
       t \in AnswerTemplates, x \in {<<>>, <<"v">>}, fs_ \in FrontMarkups,
       mm \in {{}, {<<"s">>}}}

\* the calls of render_template: template, fields, front_side, media_map
RenderCalls ==
    AnswerCalls \cup
    {[template |-> t, fields |-> m, front_side |-> <<"f">>, media_map |-> {}] :
       t \in Bodies(MaxDepth) \cup Unterminated \cup NestedUnterminated,
       m \in SectionMappings}
    \cup UNION {
       {[template |-> Placeholder(n), fields |-> m, front_side |-> fs_, media_map |-> mm] :
          m \in PlaceholderMappings(n), fs_ \in {<<>>, <<"f">>},
          mm \in {{}, {<<"s">>}}} : n \in FieldNames}

RenderInit ==
    /\ BuildIdle
    /\ LiteralIdle
    /\ PreviewIdle
    /\ ColumnsIdle
    /\ AmbientIdle
    /\ UploadIdle
    /\ \E call \in RenderCalls :
         /\ template = call.template
         /\ fields = call.fields
         /\ front_side = call.front_side
         /\ media_map = call.media_map
         /\ tpl_text = call.template
    /\ render_pc = "sections"
    /\ reductions = <<>>

\* lines 202-215: an iteration of the loop of _render_sections that replaces
\* a section
RenderSection ==
    /\ render_pc = "sections"
    /\ LET p == SectionPass(tpl_text, fields)
       IN /\ ~p.stop
          /\ tpl_text' = p.text
          /\ reductions' = Append(reductions,
                 [field |-> p.field, tag_type |-> p.tag_type, start |-> p.start,
                  end |-> p.end, kept |-> p.kept, inner |-> p.inner, before |-> tpl_text])
    /\ UNCHANGED <<not_render_vars, template, fields, front_side, media_map, render_pc>>

\* lines 204-205, 210-211 and 216: the loop of _render_sections breaks
RenderSectionsEnd ==
    /\ render_pc = "sections"
    /\ SectionPass(tpl_text, fields).stop
    /\ tpl_text' = SectionPass(tpl_text, fields).text
    /\ render_pc' = "front"
    /\ UNCHANGED <<not_render_vars, template, fields, front_side, media_map, reductions>>

\* lines 81-82
RenderFrontSide ==
    /\ render_pc = "front"
    /\ tpl_text' = IF Find(tpl_text, FrontSide, 0) # -1
                   THEN Replace(tpl_text, FrontSide, front_side)
                   ELSE tpl_text
    /\ render_pc' = "fields"
    /\ UNCHANGED <<not_render_vars, template, fields, front_side, media_map, reductions>>

\* line 83
RenderFields ==
    /\ render_pc = "fields"
    /\ tpl_text' = FIELD_RE_sub(tpl_text, 0, fields)
    /\ render_pc' = "sound"
    /\ UNCHANGED <<not_render_vars, template, fields, front_side, media_map, reductions>>

\* lines 84-85
RenderSound ==
    /\ render_pc = "sound"
    /\ tpl_text' = _replace_sound_refs(tpl_text, 0, media_map)
    /\ render_pc' = "done"
    /\ UNCHANGED <<not_render_vars, template, fields, front_side, media_map, reductions>>

RenderNext ==
    \/ RenderSection
    \/ RenderSectionsEnd
    \/ RenderFrontSide
    \/ RenderFields
    \/ RenderSound

RenderSpec == RenderInit /\ [][RenderNext]_vars

\* ==========================================================================
\* _literal_to_br (mandarin_anki.builder; mandarin_anki_ui.deck_builder and
\* anki_builder carry the same lines)
\*
\* The marker "<br>" and the two CJK separators are single characters of the
\* text: "<br>", "U+FF0C" (fullwidth comma), "U+FF1B" (fullwidth semicolon).
\* ==========================================================================

Br == "<br>"

\* the class [，,；;]
IsSeparator(c) == c \in {",", ";", "U+FF0C", "U+FF1B"}

\* the length of the run of \s characters of s that starts at offset i
RECURSIVE SpaceRun(_, _)
SpaceRun(s, i) ==
    IF i < Len(s) /\ IsSpace(s[i + 1]) THEN 1 + SpaceRun(s, i + 1) ELSE 0

\* re.sub(r"\s*[，,；;]\s*", "<br>", s) from offset i on: a separator with the
\* whitespace on both sides of it becomes one marker
RECURSIVE SeparatorsToBr(_, _)
SeparatorsToBr(s, i) ==
    IF i >= Len(s) THEN <<>>
    ELSE LET w == SpaceRun(s, i)
         IN IF i + w < Len(s) /\ IsSeparator(s[i + w + 1])
            THEN <<Br>> \o SeparatorsToBr(s, i + w + 1 + SpaceRun(s, i + w + 1))
            ELSE <<s[i + 1]>> \o SeparatorsToBr(s, i + 1)

\* the longest match of (?:<br>\s*)* at offset i: the number of repetitions and
\* the number of characters they take
RECURSIVE BrRun(_, _)
BrRun(s, i) ==
    IF i < Len(s) /\ s[i + 1] = Br
    THEN LET w == SpaceRun(s, i + 1)
             rest == BrRun(s, i + 1 + w)
         IN [count |-> 1 + rest.count, len |-> 1 + w + rest.len]
    ELSE [count |-> 0, len |-> 0]

\* mutant: runs of markers are left as they are
CollapseBr_off(s, i) == s

\* re.sub(r"(?:<br>\s*){2,}", "<br>", s) from offset i on
RECURSIVE CollapseBr(_, _)
CollapseBr(s, i) ==
    IF i >= Len(s) THEN <<>>
    ELSE IF BrRun(s, i).count >= 2
    THEN <<Br>> \o CollapseBr(s, i + BrRun(s, i).len)
    ELSE <<s[i + 1]>> \o CollapseBr(s, i + 1)

\* re.sub(r"^(<br>)+", "", s)
RECURSIVE StripLeadingBr(_)
StripLeadingBr(s) ==
    IF s # <<>> /\ Head(s) = Br THEN StripLeadingBr(Tail(s)) ELSE s

\* re.sub(r"(<br>)+$", "", s)
RECURSIVE StripTrailingBr(_)
StripTrailingBr(s) ==
    IF s # <<>> /\ s[Len(s)] = Br THEN StripTrailingBr(SubSeq(s, 1, Len(s) - 1)) ELSE s

\* _literal_to_br(text, enable)
_literal_to_br(txt, enable) ==
    IF ~enable THEN _clean(txt)
    ELSE IF _clean(txt) = <<>> THEN <<>>
    ELSE StripTrailingBr(StripLeadingBr(Strip(
             CollapseBr(SeparatorsToBr(_clean(txt), 0), 0))))

\* longest text given to _literal_to_br
MaxText == 4

\* the characters of the texts: a letter, an ASCII and a CJK separator, a
\* blank, a marker that is already there, a zero-width space
LiteralChars == {"a", ",", "U+FF1B", " ", Br, "ZWSP"}

\* the Literal cells: every text up to MaxText characters, and a missing cell
LiteralTexts == SeqsUpTo(LiteralChars, MaxText) \cup {NoneVal}

LiteralInit ==
    /\ BuildIdle
    /\ RenderIdle
    /\ PreviewIdle
    /\ ColumnsIdle
    /\ AmbientIdle
    /\ UploadIdle
    /\ literal_text \in LiteralTexts
    /\ literal_enable \in BOOLEAN
    /\ literal_once = <<>>
    /\ literal_twice = <<>>
    /\ literal_pc = "first"

\* builder.py line 329: literal_br = _literal_to_br(literal, ...)
LiteralFormat ==
    /\ literal_pc = "first"
    /\ literal_once' = _literal_to_br(literal_text, literal_enable)
    /\ literal_pc' = "second"
    /\ UNCHANGED <<not_literal_vars, literal_text, literal_enable, literal_twice>>

\* the formatter applied to its own output
LiteralFormatAgain ==
    /\ literal_pc = "second"
    /\ literal_twice' = _literal_to_br(literal_once, literal_enable)
    /\ literal_pc' = "done"
    /\ UNCHANGED <<not_literal_vars, literal_text, literal_enable, literal_once>>

LiteralNext ==
    \/ LiteralFormat
    \/ LiteralFormatAgain

LiteralSpec == LiteralInit /\ [][LiteralNext]_vars

\* ==========================================================================
\* mandarin_anki.anki_preview.load_apkg_preview
\*
\* The uploaded bytes are described by what the loader finds in them:
\*   zip        the bytes are a readable zip archive
\*   media      the member "media": "missing", "bad_json" or "ok"
\*   collection the member collection.anki2: "missing", "not_sqlite" or "ok"
\*   col        the table col of the database: "no_table", "no_row" or "ok"
\*   stored     the rows of the table cards, each one "renderable" or the
\*              reason the loop skips it
\* ==========================================================================

\* largest number of stored cards
MaxCards == 2

\* a stored card: its note, model and template are there ("renderable"), or
\* notes.get gives nothing, or models.get gives nothing, or ord is not below
\* the number of templates
CardKinds == {"renderable", "no_note", "no_model", "bad_ord"}

Archives ==
    [zip : BOOLEAN,
     media : {"missing", "bad_json", "ok"},
     collection : {"missing", "not_sqlite", "ok"},
     col : {"no_table", "no_row", "ok"},
     stored : SeqsUpTo(CardKinds, MaxCards)]

PreviewInit ==
    /\ BuildIdle
    /\ RenderIdle
    /\ LiteralIdle
    /\ ColumnsIdle
    /\ AmbientIdle
    /\ UploadIdle
    /\ apkg \in Archives
    /\ preview_pc = "open"
    /\ preview_exc = "none"
    /\ cards = <<>>

\* an exception of the given type leaves load_apkg_preview
PreviewRaise(type) ==
    /\ preview_exc' = type
    /\ preview_pc' = "done"

\* lines 89-90 and 110-111: zipfile.ZipFile(path); BadZipFile becomes
\* ApkgPreviewError
PreviewOpen ==
    /\ preview_pc = "open"
    /\ IF ~apkg.zip
       THEN PreviewRaise("ApkgPreviewError")
       ELSE preview_pc' = "media" /\ UNCHANGED preview_exc
    /\ UNCHANGED <<not_preview_vars, apkg, cards>>

\* lines 91-104: archive.open("media") raises KeyError for a missing member,
\* which becomes ApkgPreviewError; json.load raises JSONDecodeError, which
\* nothing catches
PreviewMedia ==
    /\ preview_pc = "media"
    /\ CASE apkg.media = "missing" -> PreviewRaise("ApkgPreviewError")
         [] apkg.media = "bad_json" -> PreviewRaise("JSONDecodeError")
         [] OTHER -> preview_pc' = "collection" /\ UNCHANGED preview_exc
    /\ UNCHANGED <<not_preview_vars, apkg, cards>>

\* lines 106-109 and 115-119: extractall, then the collection has to exist
PreviewCollection ==
    /\ preview_pc = "collection"
    /\ IF apkg.collection = "missing"
       THEN PreviewRaise("ApkgPreviewError")
       ELSE preview_pc' = "col" /\ UNCHANGED preview_exc
    /\ UNCHANGED <<not_preview_vars, apkg, cards>>

\* line 121: conn.execute("SELECT models, decks FROM col").fetchone() gives a
\* row or None, or raises sqlite3.DatabaseError for a file that is no
\* database and sqlite3.OperationalError for a missing table
ColQuery(collection, col) ==
    CASE collection = "not_sqlite" -> "DatabaseError"
      [] col = "no_table" -> "OperationalError"
      [] col = "no_row" -> "None"
      [] OTHER -> "row"

\* lines 121-137: the metadata row, then the notes and the cards are read
PreviewCol ==
    /\ preview_pc = "col"
    /\ CASE ColQuery(apkg.collection, apkg.col) = "row" ->
                preview_pc' = "cards" /\ UNCHANGED preview_exc
         [] ColQuery(apkg.collection, apkg.col) = "None" ->
                PreviewRaise("ApkgPreviewError")
         [] OTHER -> PreviewRaise(ColQuery(apkg.collection, apkg.col))
    /\ UNCHANGED <<not_preview_vars, apkg, cards>>

\* the stored cards the loop of lines 140-190 appends a PreviewCard for
Renderable(stored) ==
    SelectSeq([i \in DOMAIN stored |-> [card |-> i, kind |-> stored[i]]],
              LAMBDA c : c.kind = "renderable")

\* lines 139-195: the loop over the stored cards, then the result
PreviewCards ==
    /\ preview_pc = "cards"
    /\ cards' = Renderable(apkg.stored)
    /\ IF cards' = <<>>
       THEN PreviewRaise("ApkgPreviewError")
       ELSE preview_pc' = "done" /\ UNCHANGED preview_exc
    /\ UNCHANGED <<not_preview_vars, apkg>>

PreviewNext ==
    \/ PreviewOpen
    \/ PreviewMedia
    \/ PreviewCollection
    \/ PreviewCol
    \/ PreviewCards

PreviewSpec == PreviewInit /\ [][PreviewNext]_vars

\* --------------------------------------------------------------------------
\* anki_builder.build_anki_deck (the stand-alone builder)
\* --------------------------------------------------------------------------

\* line 176: a given Audio value is used as it is, a missing one is derived
\* with the fixed extension mp3
LegacyAudioName(audio_raw, i) ==
    IF audio_raw = <<>>
    THEN Lower(base_name) \o <<"_">> \o Fmt3(i) \o <<".", "m", "p", "3">>
    ELSE audio_raw

\* lines 192-211: tts_to_file writes tmp_wav, the voice is mixed and exported
\* to mp3_path, then tmp_wav is unlinked; a failing mix or export leaves
\* tmp_wav behind
LegacyRenderAudio(files, ds, tmp_wav, mp3_path, text, render_fails) ==
    LET voiced == WriteFile(files, tmp_wav, text)
    IN IF render_fails \/ ~CanWrite(ds, mp3_path)
       THEN [ok |-> FALSE, files |-> voiced]
       ELSE [ok |-> TRUE,
             files |-> Unlink(WriteFile(voiced, mp3_path, voiced[tmp_wav]), tmp_wav)]

\* lines 170-237: the try block of one row with its except clause, which
\* prints and goes on; a row without Hanzi is printed and skipped
LegacyRowBody(st, row, i, regen, env) ==
    LET hanzi == Get(row, "Hanzi", <<>>)
        audio == LegacyAudioName(Get(row, "Audio", <<>>), i)
    IN IF HanziMissing(hanzi)
       THEN st
       ELSE
       LET synth == NeedsSynthesis(regen, st.fs, st.dirs, audio)
           call == [row |-> i, handle |-> st.tts_model, path |-> audio,
                    existed |-> Exists(st.fs, st.dirs, audio)]
           rendered == LegacyRenderAudio(st.fs, st.dirs, TmpWav(i), audio, hanzi, env.render)
       IN IF synth /\ env.synth
          THEN [st EXCEPT !.synth_log = Append(st.synth_log, call)]
          ELSE IF synth /\ ~rendered.ok
          THEN [st EXCEPT !.synth_log = Append(st.synth_log, call),
                          !.fs = rendered.files]
          ELSE
          LET s2 == IF synth
                    THEN [st EXCEPT !.synth_log = Append(st.synth_log, call),
                                    !.fs = rendered.files]
                    ELSE st
              s3 == [s2 EXCEPT !.media_files = Append(st.media_files, audio)]
          IN IF env.note
             THEN s3
             ELSE [s3 EXCEPT !.notes = Append(st.notes,
                                 [row |-> i, Hanzi |-> hanzi, Audio |-> audio])]

\* a call of the stand-alone builder: no callback, any disk, any flags
LegacyInit ==
    /\ RenderIdle
    /\ LiteralIdle
    /\ PreviewIdle
    /\ ColumnsIdle
    /\ AmbientIdle
    /\ UploadIdle
    /\ entry = "legacy"
    /\ pc = "start"
    /\ outcome = "running"
    /\ exc = NoExc
    /\ regenerate \in BOOLEAN
    /\ speaker_exists \in BOOLEAN
    /\ csv_exists \in BOOLEAN
    /\ has_callback = FALSE
    /\ rows = <<>>
    /\ rows_read = FALSE
    /\ out_dir_made = FALSE
    /\ \E disk \in InitialDisks : fs = disk.files /\ dirs = disk.dirs /\ fs0 = disk.files
    /\ idx = 0
    /\ notes = <<>>
    /\ media_files = <<>>
    /\ row_errors = <<>>
    /\ events = <<>>
    /\ tts_model = 0
    /\ pref_exhausted = FALSE
    /\ create_calls = 0
    /\ synth_log = <<>>
    /\ apkg_written = FALSE
    /\ result = NoResult

\* lines 75-84: output_dir is created, the model is loaded and placed on
\* "cuda" or, when that raises, on "cpu"; an exception of TTS(...) or of
\* to("cpu") leaves the function
LegacyCreateTts ==
    /\ entry = "legacy" /\ pc = "start"
    /\ out_dir_made' = TRUE
    /\ \E create_fails \in BOOLEAN, ok_devs \in SUBSET Devices :
         /\ create_calls' = create_calls + 1
         /\ IF create_fails
            THEN /\ ok_devs = {}
                 /\ Raise(PyError("Exception", "create"))
                 /\ UNCHANGED tts_model
            ELSE /\ tts_model' = create_calls + 1
                 /\ IF ok_devs = {}
                    THEN Raise(PyError("Exception", "device"))
                    ELSE Goto("read")
    /\ UNCHANGED <<config_vars, util_vars, fs, dirs, pref_exhausted, synth_log, media_files,
                   notes, row_errors, rows, rows_read, idx, events, apkg_written, result>>

\* lines 158-162: open raises for a missing file; the rows are cleaned and a
\* table without rows is accepted
LegacyReadRows ==
    /\ entry = "legacy" /\ pc = "read"
    /\ IF ~csv_exists
       THEN Raise(PyError("FileNotFoundError", "csv_path")) /\ UNCHANGED <<rows, rows_read>>
       ELSE \E table \in Tables :
              /\ rows_read' = TRUE
              /\ rows' = CleanRows(table)
              /\ Goto("speaker")
    /\ UNCHANGED <<config_vars, util_vars, loop_vars, out_dir_made, idx, events, apkg_written,
                   result>>

\* lines 165-166 and the head of the loop at line 169
LegacyCheckSpeaker ==
    /\ entry = "legacy" /\ pc = "speaker"
    /\ IF ~speaker_exists
       THEN Raise(PyError("FileNotFoundError", "speaker_wav")) /\ UNCHANGED idx
       ELSE IF rows = <<>>
       THEN Goto("package") /\ UNCHANGED idx
       ELSE Goto("row") /\ idx' = 1
    /\ UNCHANGED <<config_vars, util_vars, loop_vars, rows, rows_read, out_dir_made, events,
                   apkg_written, result>>

\* lines 169-237: one turn of the loop
LegacyProcessRow ==
    /\ entry = "legacy" /\ pc = "row"
    /\ LET row == rows[idx]
           missing == HanziMissing(Get(row, "Hanzi", <<>>))
           synth == NeedsSynthesis(regenerate, fs, dirs,
                                   LegacyAudioName(Get(row, "Audio", <<>>), idx))
       IN \E env \in ReachedEnvs(missing, synth, FALSE) :
            LET st == LegacyRowBody(LoopState, row, idx, regenerate, env)
            IN /\ fs' = st.fs
               /\ synth_log' = st.synth_log
               /\ media_files' = st.media_files
               /\ notes' = st.notes
    /\ IF idx < Len(rows)
       THEN Goto("row") /\ idx' = idx + 1
       ELSE Goto("package") /\ UNCHANGED idx
    /\ UNCHANGED <<config_vars, util_vars, dirs, tts_model, pref_exhausted, create_calls,
                   row_errors, rows, rows_read, out_dir_made, events, apkg_written, result>>

\* lines 239-242: the archive is written whatever the deck holds, and its
\* path is returned
LegacyWritePackage ==
    /\ entry = "legacy" /\ pc = "package"
    /\ IF ~PackageWritable(fs, dirs, media_files)
       THEN Raise(PyError("FileNotFoundError", "media")) /\ UNCHANGED <<apkg_written, result>>
       ELSE /\ apkg_written' = TRUE
            /\ pc' = "done" /\ outcome' = "returned" /\ UNCHANGED exc
            /\ result' = [NoResult EXCEPT !.apkg_path = TRUE]
    /\ UNCHANGED <<config_vars, util_vars, loop_vars, rows, rows_read, out_dir_made, idx, events>>

LegacyNext ==
    \/ LegacyCreateTts
    \/ LegacyReadRows
    \/ LegacyCheckSpeaker
    \/ LegacyProcessRow
    \/ LegacyWritePackage

LegacySpec == LegacyInit /\ [][LegacyNext]_vars

\* --------------------------------------------------------------------------
\* The column mapping of the three builders
\* --------------------------------------------------------------------------

\* the keys of DEFAULT_COLUMNS
ColumnFields == {"Hanzi", "Pinyin", "Indo", "Literal", "Grammar", "Audio",
                 "Enable_RM", "Enable_LT", "Enable_MP", "Tags", "UID"}

\* DEFAULT_COLUMNS: every canonical field names the column of the same name
DEFAULT_COLUMNS == [f \in ColumnFields |-> f]

\* the keys a caller's override may hold: three canonical fields and a key
\* that is none
OverrideKeys == {"Hanzi", "Audio", "UID", "Extra"}

\* the values a caller gives: no name, or the name of a column of the table
OverrideValues == {"", "Text"}

\* the columns arguments: None, the empty dict, and the dicts over some keys
Overrides ==
    {NoOverride} \cup
    { [none |-> FALSE, items |-> m] :
        m \in UNION { [K -> OverrideValues] : K \in SUBSET OverrideKeys } }

\* "columns or {}", "if config.columns": None and the empty dict are false
Falsy(columns) == columns.none \/ DOMAIN columns.items = {}

\* {k: v for k, v in columns.items() if v}
NonEmptyItems(items) == [k \in {j \in DOMAIN items : items[j] # ""} |-> items[k]]

\* d.update(u) on a copy of d
Update(d, u) == [k \in DOMAIN d \cup DOMAIN u |-> IF k \in DOMAIN u THEN u[k] ELSE d[k]]

\* mandarin_anki.builder._validate_columns
_validate_columns(columns) ==
    Update(DEFAULT_COLUMNS,
           NonEmptyItems(IF Falsy(columns) THEN <<>> ELSE columns.items))

\* mandarin_anki_ui.deck_builder._prepare_columns
_prepare_columns(columns) ==
    IF Falsy(columns)
    THEN DEFAULT_COLUMNS
    ELSE Update(DEFAULT_COLUMNS, NonEmptyItems(columns.items))

\* anki_builder.build_anki_deck: columns = columns or {the eleven defaults}
LegacyColumns(columns) == IF Falsy(columns) THEN DEFAULT_COLUMNS ELSE columns.items

ColumnBuilders == {"core", "ui", "legacy"}

\* a builder is called with a columns argument
ColumnsInit ==
    /\ BuildIdle
    /\ RenderIdle
    /\ LiteralIdle
    /\ PreviewIdle
    /\ AmbientIdle
    /\ UploadIdle
    /\ col_builder \in ColumnBuilders
    /\ col_override \in Overrides
    /\ col_mapping = <<>>
    /\ col_pc = "start"

\* builder.py line 225: columns = _validate_columns(config.columns)
CoreValidateColumns ==
    /\ col_builder = "core" /\ col_pc = "start"
    /\ col_mapping' = _validate_columns(col_override)
    /\ col_pc' = "done"
    /\ UNCHANGED <<not_columns_vars, col_builder, col_override>>

\* deck_builder.py line 245: columns = _prepare_columns(config)
UiPrepareColumns ==
    /\ col_builder = "ui" /\ col_pc = "start"
    /\ col_mapping' = _prepare_columns(col_override)
    /\ col_pc' = "done"
    /\ UNCHANGED <<not_columns_vars, col_builder, col_override>>

\* anki_builder.py lines 61-73
LegacySetColumns ==
    /\ col_builder = "legacy" /\ col_pc = "start"
    /\ col_mapping' = LegacyColumns(col_override)
    /\ col_pc' = "done"
    /\ UNCHANGED <<not_columns_vars, col_builder, col_override>>

ColumnsNext ==
    \/ CoreValidateColumns
    \/ UiPrepareColumns
    \/ LegacySetColumns

ColumnsSpec == ColumnsInit /\ [][ColumnsNext]_vars

\* --------------------------------------------------------------------------
\* The ambient mixing step of the audio renderers.  Lengths are len(segment),
\* whole milliseconds.
\* --------------------------------------------------------------------------

\* longest voice clip
MaxVoice == 4

\* longest ambient sample
MaxAmbient == 4

\* iterations of the while loop that are followed
MaxIters == 3

\* the code that mixes: mandarin_anki.builder._render_audio,
\* PydubAudioEngine.render, anki_builder.build_anki_deck, project_copy
AmbientImpls == {"core", "ui", "legacy", "project_copy"}

\* mutant: the ambient sample is repeated len(voice) // len(ambient) times
Repeats_rounded_down(voice, ambient) == voice \div ambient

\* repeat = (len(voice) // len(ambient)) + 1
Repeats(voice, ambient) == (voice \div ambient) + 1

\* segment[:n]: a slice does not reach past the end of the segment
SliceLen(length, n) == IF n < length THEN n ELSE length

\* voice.overlay(ambient): the clip keeps the length of the voice
OverlayLen(voice, ambient) == voice

\* the voice clip and the ambient sample are loaded
AmbientInit ==
    /\ BuildIdle
    /\ RenderIdle
    /\ LiteralIdle
    /\ PreviewIdle
    /\ ColumnsIdle
    /\ UploadIdle
    /\ amb_impl \in AmbientImpls
    /\ amb_voice \in 0..MaxVoice
    /\ amb_sample \in 0..MaxAmbient
    /\ amb_len = amb_sample
    /\ amb_looped = 0
    /\ amb_mixed = 0
    /\ amb_iters = 0
    /\ amb_pc = "loop"
    /\ amb_exc = "none"

\* the branch "if len(ambient) < len(voice)" with the slice and the overlay
\* behind it; the division raises for a sample of length zero
RepeatAndMix ==
    IF amb_len < amb_voice /\ amb_len = 0
    THEN /\ amb_exc' = "ZeroDivisionError"
         /\ amb_pc' = "done"
         /\ UNCHANGED <<amb_len, amb_looped, amb_mixed>>
    ELSE LET looped == IF amb_len < amb_voice
                       THEN amb_len * Repeats(amb_voice, amb_len)
                       ELSE amb_len
             sliced == SliceLen(looped, amb_voice)
         IN /\ amb_looped' = looped
            /\ amb_len' = sliced
            /\ amb_mixed' = OverlayLen(amb_voice, sliced)
            /\ amb_pc' = "done"
            /\ UNCHANGED amb_exc

\* builder.py lines 197-203
CoreMixAmbient ==
    /\ amb_impl = "core" /\ amb_pc = "loop"
    /\ RepeatAndMix
    /\ UNCHANGED <<not_ambient_vars, amb_impl, amb_voice, amb_sample, amb_iters>>

\* audio_engine.py lines 46-51
UiMixAmbient ==
    /\ amb_impl = "ui" /\ amb_pc = "loop"
    /\ RepeatAndMix
    /\ UNCHANGED <<not_ambient_vars, amb_impl, amb_voice, amb_sample, amb_iters>>

\* anki_builder.py lines 203-204, project_copy.py lines 42-43: one iteration
\* of "while len(ambient) < len(voice): ambient += ambient"
AmbientDouble ==
    /\ amb_impl \in {"legacy", "project_copy"} /\ amb_pc = "loop"
    /\ amb_len < amb_voice
    /\ amb_iters < MaxIters
    /\ amb_len' = amb_len + amb_len
    /\ amb_iters' = amb_iters + 1
    /\ UNCHANGED <<not_ambient_vars, amb_impl, amb_voice, amb_sample, amb_looped, amb_mixed,
                   amb_pc, amb_exc>>

\* anki_builder.py lines 205-206, project_copy.py lines 44-48: the loop has
\* ended, the track is cut and laid under the voice
AmbientTruncate ==
    /\ amb_impl \in {"legacy", "project_copy"} /\ amb_pc = "loop"
    /\ ~(amb_len < amb_voice)
    /\ amb_looped' = amb_len
    /\ amb_len' = SliceLen(amb_len, amb_voice)
    /\ amb_mixed' = OverlayLen(amb_voice, amb_len')
    /\ amb_pc' = "done"
    /\ UNCHANGED <<not_ambient_vars, amb_impl, amb_voice, amb_sample, amb_iters, amb_exc>>

AmbientNext ==
    \/ CoreMixAmbient
    \/ UiMixAmbient
    \/ AmbientDouble
    \/ AmbientTruncate

AmbientSpec == AmbientInit /\ [][AmbientNext]_vars

\* --------------------------------------------------------------------------
\* app.py: the preview of an uploaded table (_build_csv_preview_rows) and the
\* build started from the same upload (_handle_generation, which calls
\* mandarin_anki.builder.build_anki_deck)
\* --------------------------------------------------------------------------

\* f"{idx:04d}"
Fmt4(n) == <<Digit((n \div 1000) % 10)>> \o Fmt3(n)

\* str.replace(" ", "_")
Underscored(s) == [k \in 1..Len(s) |-> IF s[k] = " " THEN "_" ELSE s[k]]

\* app.py line 172: the base name of the preview comes from the name of the
\* uploaded file
PreviewBaseName(csv_name) ==
    LET named == IF csv_name = <<>> THEN <<"i", "n", "p", "u", "t", ".", "c", "s", "v">>
                 ELSE csv_name
        stem == Underscored(PathStem(named))
    IN IF stem = <<>> THEN <<"d", "e", "c", "k">> ELSE stem

\* app.py line 314 and builder.py line 288: the build reads tmp_dir/input.csv,
\* whatever the upload was called
BuildBaseName == Underscored(PathStem(<<"i", "n", "p", "u", "t", ".", "c", "s", "v">>))

\* row.get(columns["UID"], "") or f"{base_name}-{idx:04d}"
UidFor(base, uid_raw, i) ==
    IF uid_raw = <<>> THEN base \o <<"-">> \o Fmt4(i) ELSE uid_raw

\* the audio file name for row i (app.py lines 200-203, builder.py lines 331-334)
AudioNameFor(base, audio_raw, i) ==
    IF audio_raw = <<>>
    THEN Lower(base) \o <<"_">> \o Fmt3(i) \o Dot(audio_format)
    ELSE IF ~EndsWith(Lower(audio_raw), Dot(audio_format))
         THEN PathStem(audio_raw) \o Dot(audio_format)
         ELSE audio_raw

\* limit: int = 10
PreviewLimit == 10

\* names of uploaded tables
UploadNames ==
    {<<"i", "n", "p", "u", "t", ".", "c", "s", "v">>,
     <<"d", "e", "c", "k", ".", "c", "s", "v">>,
     <<"m", "y", " ", "d", ".", "c", "s", "v">>}

\* cleaned rows of an upload: with and without Hanzi, Audio and UID
UploadRows ==
    [Hanzi : {<<>>, <<"A">>},
     Audio : {<<>>, <<"a", ".", "w", "a", "v">>, <<"d", "/", "a">>},
     UID : {<<>>, <<"u">>}]

\* a table is uploaded and its settings are chosen on the page
UploadInit ==
    /\ BuildIdle
    /\ RenderIdle
    /\ LiteralIdle
    /\ PreviewIdle
    /\ ColumnsIdle
    /\ AmbientIdle
    /\ up_name \in UploadNames
    /\ up_rows \in SeqsUpTo(UploadRows, MaxRows)
    /\ pv_rows = <<>>
    /\ bd_notes = <<>>
    /\ agree_pc = "uploaded"

\* app.py lines 176-224: the preview rows of the first rows of the table, up
\* to the limit; a row without Hanzi gets a message and its cards all the same
PreviewOfTable(csv_name, table) ==
    LET shown == IF Len(table) < PreviewLimit THEN Len(table) ELSE PreviewLimit
        base == PreviewBaseName(csv_name)
    IN [i \in 1..shown |->
          [index |-> i,
           uid |-> UidFor(base, Get(table[i], "UID", <<>>), i),
           audio |-> AudioNameFor(base, Get(table[i], "Audio", <<>>), i),
           cards |-> TRUE]]

\* builder.py lines 311-374 on tmp_dir/input.csv, with every call of the
\* environment succeeding: one note per row with Hanzi
RECURSIVE NotesOfTable(_, _)
NotesOfTable(table, n) ==
    IF n = 0 THEN <<>>
    ELSE LET before == NotesOfTable(table, n - 1)
         IN IF HanziMissing(Get(table[n], "Hanzi", <<>>))
            THEN before
            ELSE Append(before,
                        [row |-> n,
                         uid |-> UidFor(BuildBaseName, Get(table[n], "UID", <<>>), n),
                         audio |-> AudioNameFor(BuildBaseName,
                                                Get(table[n], "Audio", <<>>), n)])

\* app.py lines 476-487: the page shows the preview of the upload
ShowCsvPreview ==
    /\ agree_pc = "uploaded"
    /\ pv_rows' = PreviewOfTable(up_name, up_rows)
    /\ agree_pc' = "previewed"
    /\ UNCHANGED <<not_upload_vars, up_name, up_rows, bd_notes>>

\* app.py lines 313-366: the build of the same upload
HandleGeneration ==
    /\ agree_pc = "previewed"
    /\ bd_notes' = NotesOfTable(up_rows, Len(up_rows))
    /\ agree_pc' = "built"
    /\ UNCHANGED <<not_upload_vars, up_name, up_rows, pv_rows>>

UploadNext ==
    \/ ShowCsvPreview
    \/ HandleGeneration

UploadSpec == UploadInit /\ [][UploadNext]_vars

\* --------------------------------------------------------------------------
\* Properties
\* --------------------------------------------------------------------------

\* notes the deck holds for row i
NotesOf(i) == Cardinality({k \in DOMAIN notes : notes[k].row = i})

\* warnings recorded for row i
ErrorsOf(i) == Cardinality({k \in DOMAIN row_errors : row_errors[k].row = i})

\* row i was left by an exception
Failed(i) == \E k \in DOMAIN row_errors :
                row_errors[k].row = i /\ row_errors[k].kind = "exception"

HanziOf(i) == Get(rows[i], "Hanzi", <<>>)

\* the rows whose try block has run
Visited == 1..idx

\* C1 as stated: every visited row with a non-empty Hanzi field has exactly
\* one note and no warning, every visited row with an empty Hanzi field has
\* no note and exactly one warning.
C1_OneNotePerNonEmptyRow ==
    entry = "core" =>
        \A i \in Visited :
            /\ HanziOf(i) # <<>> => (NotesOf(i) = 1 /\ ErrorsOf(i) = 0)
            /\ HanziOf(i) = <<>> => (NotesOf(i) = 0 /\ ErrorsOf(i) = 1)

\* C1 amended: every visited row has either exactly one note or exactly one
\* warning, never both; it has the note exactly when its Hanzi field is
\* non-empty and no exception was raised while it was processed; a row with
\* an empty Hanzi field has the "empty" warning.  Rows not yet visited have
\* neither.
C1_NoteOrWarningPerRow ==
    entry = "core" =>
        /\ \A i \in Visited :
            /\ NotesOf(i) + ErrorsOf(i) = 1
            /\ NotesOf(i) = 1 <=> (HanziOf(i) # <<>> /\ ~Failed(i))
            /\ HanziOf(i) = <<>> => ~Failed(i)
        /\ \A k \in DOMAIN notes : notes[k].row \in Visited
        /\ \A k \in DOMAIN row_errors : row_errors[k].row \in Visited

\* C1 witness: a build in which one row got a note, one row was skipped for
\* its empty Hanzi field, and the loop has ended
C1_Witness ==
    /\ entry = "core" /\ pc = "package" /\ Len(rows) = 2
    /\ \E i, j \in Visited :
         /\ NotesOf(i) = 1 /\ HanziOf(i) # <<>>
         /\ HanziOf(j) = <<>> /\ ErrorsOf(j) = 1 /\ NotesOf(j) = 0

\* C2: an exception raised while a row is processed never leaves the loop:
\* the step that processes row i ends at the row's finally clause with the
\* build still running, and when it added no note it added exactly one
\* row_errors entry carrying the 1-based position i.
C2_RowStep ==
    (entry = "core" /\ pc = "row") =>
        /\ pc' = "notify_row" /\ outcome' = "running" /\ idx' = idx + 1
        /\ \/ /\ Len(notes') = Len(notes) + 1
              /\ row_errors' = row_errors
           \/ /\ notes' = notes
              /\ Len(row_errors') = Len(row_errors) + 1
              /\ SubSeq(row_errors', 1, Len(row_errors)) = row_errors
              /\ row_errors'[Len(row_errors')].row = idx + 1

\* C2: once the loop has started the build is left before the last row was
\* visited only by an exception of the progress callback, never by a row's
\* own exception.
C2_LoopCompletes ==
    (entry = "core" /\ pc = "done" /\ rows # <<>> /\ exc.type # "CallbackError")
        => idx = Len(rows)

\* C2: a failing row is caught, recorded with its 1-based position, and the
\* rows after it are still visited.
C2_FailingRowNeverAborts == [][C2_RowStep]_vars /\ []C2_LoopCompletes

\* C2 witness: row 1 raised, was recorded, and row 2 was then processed into
\* a note
C2_Witness ==
    /\ entry = "core" /\ idx = 2 /\ Failed(1) /\ NotesOf(2) = 1

\* C3: when the loop has ended and the deck holds no note, the next step
\* raises DeckBuildError("no cards") carrying the accumulated warnings and
\* writes no archive
C3_PackageStep ==
    (entry = "core" /\ pc = "package" /\ notes = <<>>) =>
        /\ outcome' = "raised"
        /\ exc' = [type |-> "DeckBuildError", detail |-> "no cards",
                   row_errors |-> row_errors]
        /\ Len(row_errors) = Len(rows)
        /\ apkg_written' = FALSE

\* C3: a build whose deck holds zero notes after all rows were visited fails
\* with the no-cards DeckBuildError whose row_errors are the warnings of the
\* loop, and no archive is ever written for an empty deck.
C3_NoCardsError == [][C3_PackageStep]_vars /\ [](notes = <<>> => ~apkg_written)

\* C3 witness: the no-cards error, raised with one skipped and one failed row
C3_Witness ==
    /\ entry = "core" /\ outcome = "raised" /\ exc.detail = "no cards"
    /\ Len(exc.row_errors) = 2
    /\ \E k \in 1..2 : exc.row_errors[k].kind = "exception"
    /\ \E k \in 1..2 : exc.row_errors[k].kind = "empty"

\* C4: with a missing speaker sample the build fails with the DeckBuildError
\* that names speaker_wav before anything else happened: the table was not
\* read, output_dir was not created, no event was emitted, no engine created.
C4_MissingSpeakerFailsFirst ==
    (entry = "core" /\ ~speaker_exists /\ pc # "start") =>
        /\ outcome = "raised"
        /\ exc.type = "DeckBuildError" /\ exc.detail = "speaker_wav"
        /\ ~rows_read /\ ~out_dir_made
        /\ events = <<>> /\ create_calls = 0 /\ idx = 0 /\ fs = fs0

\* C4 witness: the build has failed on the missing speaker sample, with a
\* callback supplied and a table present
C4_Witness ==
    /\ entry = "core" /\ ~speaker_exists /\ outcome = "raised"
    /\ has_callback /\ csv_exists

\* the audio path the builder of this run uses for row i
RowAudioPath(i) ==
    IF entry = "ui" THEN UiAudioName(Get(rows[i], "Audio", <<>>), i)
    ELSE AudioPath(Get(rows[i], "Audio", <<>>), i)

\* C5: a step of a build with regenerate_audio_if_exists = false that calls
\* tts_to_file does so for a target path that did not exist when the step
\* began
C5_SynthesisStep ==
    (entry \in {"core", "ui"} /\ Len(synth_log') > Len(synth_log)) =>
        /\ Len(synth_log') = Len(synth_log) + 1
        /\ regenerate \/ ~Exists(fs, dirs, synth_log'[Len(synth_log')].path)

\* C5: a build with regenerate_audio_if_exists = false over an output
\* directory that held the audio file of every row with a Hanzi value before
\* the build began makes no synthesis call
C5_RerunSynthesizesNothing ==
    (/\ entry \in {"core", "ui"} /\ ~regenerate /\ rows # <<>>
     /\ \A i \in 1..Len(rows) : HanziOf(i) # <<>> => RowAudioPath(i) \in DOMAIN fs0)
        => synth_log = <<>>

\* C5: with regenerate_audio_if_exists = false no synthesis is invoked for a
\* row whose target audio file exists when the row is processed, so a re-run
\* over a directory that holds every row's file synthesizes nothing.
C5_NoSynthesisForExistingAudio ==
    [][C5_SynthesisStep]_vars /\ []C5_RerunSynthesizesNothing

\* C5 witness: a re-run without regeneration over a directory that held both
\* rows' files has turned both rows into notes without a synthesis call
C5_Witness ==
    /\ entry = "core" /\ ~regenerate /\ pc = "package"
    /\ Len(rows) = 2 /\ Len(notes) = 2 /\ synth_log = <<>>
    /\ \A i \in 1..2 : RowAudioPath(i) \in DOMAIN fs0

\* the events a callback receives in a build over n rows that returns
RECURSIVE RowEvents(_, _)
RowEvents(k, n) ==
    IF k = 0 THEN <<>>
    ELSE Append(RowEvents(k - 1, n), [stage |-> "row", current |-> k, total |-> n])

ExpectedEvents(n) ==
    <<[stage |-> "init", current |-> 0, total |-> n],
      [stage |-> "rows", current |-> 0, total |-> n]>>
    \o RowEvents(n, n)
    \o <<[stage |-> "complete", current |-> 0, total |-> 0]>>

HasStage(stage) == \E k \in DOMAIN events : events[k].stage = stage

\* C6: the callback of a build that returns has received exactly init(N),
\* rows(N), row(1,N) .. row(N,N), complete, in this order
C6_ReturnedEvents ==
    (entry = "core" /\ has_callback /\ outcome = "returned")
        => events = ExpectedEvents(Len(rows))

\* C6: the complete event is emitted only after the archive was written, and
\* a build that fails has emitted none (the one failure after the complete
\* event is the exception the callback itself raises on that event)
C6_CompleteOnlyAfterArchive ==
    /\ HasStage("complete") => apkg_written
    /\ (entry = "core" /\ outcome = "raised" /\ HasStage("complete"))
           => (exc.type = "CallbackError" /\ exc.detail = "complete")

\* C6: at every moment the events received are a prefix of the sequence
\* init(N), rows(N), row(1,N) .. row(N,N), complete, with one row event for
\* each row whose finally clause has run
C6_EventPrefix ==
    (entry = "core" /\ has_callback /\ rows # <<>>) =>
        /\ Len(events) <= Len(ExpectedEvents(Len(rows)))
        /\ events = SubSeq(ExpectedEvents(Len(rows)), 1, Len(events))
        /\ pc \in {"row", "package"} => Len(events) = 2 + idx

C7_CallbackCannotAbort ==
    (entry = "core" /\ pc = "done" /\ rows # <<>>) =>
        /\ idx = Len(rows)
        /\ \/ apkg_written
           \/ exc.type = "FileNotFoundError"
           \/ (exc.type = "DeckBuildError" /\ exc.detail = "no cards")

\* C8 as stated: an engine no device of the preference list accepted is
\* reported as a fatal error and is never used for a synthesis call.
C8_ExhaustedDevicesAreFatal ==
    (tts_model # 0 /\ pref_exhausted) =>
        /\ outcome = "raised"
        /\ \A k \in DOMAIN synth_log : synth_log[k].handle # tts_model

\* the Audio value of the row note k was built from
RawAudioOf(k) == Get(rows[notes[k].row], "Audio", <<>>)

HasDirectory(name) == RFind(name, "/") > 0

InMedia(path) == \E k \in DOMAIN media_files : media_files[k] = path

\* C9 as stated: a note built from an Audio value with directory components
\* and no extension has its audio file at <directories>/<name>.<format>
\* below output_dir, the directories exist, and that path is in media_files.
C9_NestedAudioKeepsDirectories ==
    entry = "core" =>
        \A k \in DOMAIN notes :
            (HasDirectory(RawAudioOf(k)) /\ PathSuffix(RawAudioOf(k)) = <<>>) =>
                LET expected == PathParent(RawAudioOf(k)) \o <<"/">>
                                \o PathName(RawAudioOf(k)) \o <<".">> \o audio_format
                IN /\ expected \in DOMAIN fs
                   /\ PathParent(expected) \in dirs
                   /\ InMedia(expected)

\* C10 as stated: every media file of a returned result exists and its
\* suffix is "." + audio_format.
C10_MediaExistWithSuffix ==
    (entry = "core" /\ outcome = "returned") =>
        \A k \in DOMAIN result.media_files :
            /\ Exists(fs, dirs, result.media_files[k])
            /\ PathSuffix(result.media_files[k]) = <<".">> \o audio_format

\* C10 amended: every media file of a returned result exists and its name
\* ends with "." + audio_format when letter case is ignored (an Audio value
\* that already ends with the extension in any letter case is kept as it is).
C10_MediaExistWithSuffixAnyCase ==
    (entry = "core" /\ outcome = "returned") =>
        \A k \in DOMAIN result.media_files :
            /\ Exists(fs, dirs, result.media_files[k])
            /\ EndsWith(Lower(result.media_files[k]), Lower(<<".">> \o audio_format))

\* C10 witness: a returned result with two media files, one derived from the
\* row position and one that keeps an upper-case extension
C10_Witness ==
    /\ entry = "core" /\ outcome = "returned"
    /\ Len(result.media_files) = 2
    /\ \E k \in 1..2 : PathSuffix(result.media_files[k]) = <<".", "W", "A", "V">>
    /\ \E k \in 1..2 : PathSuffix(result.media_files[k]) = <<".", "w", "a", "v">>
    /\ synth_log # <<>>

\* --------------------------------------------------------------------------
\* Properties of the section pass of render_template
\* --------------------------------------------------------------------------

\* the offsets at or after start where pat occurs in s
Occurrences(s, pat, start) ==
    {i \in start..(Len(s) - Len(pat)) : Slice(s, i, i + Len(pat)) = pat}

\* the offsets at or after start of the opening markers for field f
OpenOffsets(s, f, start) ==
    Occurrences(s, OpenHash(f), start) \cup Occurrences(s, OpenCaret(f), start)

\* the closing markers for f at or after start before which as many sections
\* for f were opened as were closed: each of them closes the section that was
\* open at start, and the first of them is the one paired with it
BalancedCloses(s, f, start) ==
    {c \in Occurrences(s, CloseTag(f), start) :
       Cardinality({o \in OpenOffsets(s, f, start) : o < c})
         = Cardinality({d \in Occurrences(s, CloseTag(f), start) : d < c})}

\* the least element of a non-empty set of offsets
Least(S) == CHOOSE i \in S : \A j \in S : i <= j

\* the field name and the end offset of the opening marker at offset i of s
MarkerField(s, i) == Strip(Slice(s, i + 3, i + 3 + RunLen(s, i + 3)))
MarkerEnd(s, i) == i + 3 + RunLen(s, i + 3) + 2

\* the reduction k replaced a section that held a section for the same field
SameFieldNested(k) ==
    /\ OpenOffsets(reductions[k].inner, reductions[k].field, 0) # {}
    /\ Occurrences(reductions[k].inner, CloseTag(reductions[k].field), 0) # {}

\* C11: for every opening marker of the text the section pass works on,
\* _extract_section pairs it with the closing marker that balances it: the
\* inner text runs up to that marker (past the closing markers of the
\* sections for the same field that it contains, whatever their number) and
\* the end offset is just behind it; without a balancing closing marker the
\* result is -1.
C11_OuterMarkerPairsWithOuterClose ==
    render_pc = "sections" =>
        \A i \in 0..Len(tpl_text) :
            SectionAt(tpl_text, i) =>
                LET f == MarkerField(tpl_text, i)
                    start == MarkerEnd(tpl_text, i)
                    bal == BalancedCloses(tpl_text, f, start)
                    ext == _extract_section(tpl_text, f, start)
                IN IF bal = {}
                   THEN ext.end = -1
                   ELSE /\ ext.end = Least(bal) + Len(CloseTag(f))
                        /\ ext.inner = Slice(tpl_text, start, Least(bal))

\* C11 witness: the section pass has replaced a section that contained a
\* section for the same field, closing marker included
C11_Witness ==
    \E k \in DOMAIN reductions :
        /\ SameFieldNested(k)
        /\ reductions[k].kept
        /\ Len(reductions[k].inner) > Len(CloseTag(reductions[k].field))

\* the value of field f is non-empty after trimming (a missing field is empty)
NonEmptyField(f) ==
    /\ f \in DOMAIN fields
    /\ \E i \in DOMAIN fields[f] : ~IsSpace(fields[f][i])

\* the text that results when the section whose opening marker stands at
\* offset i of s (closed by its balancing marker) is replaced by its inner
\* markup T, or by nothing
Reduced(s, i, keep) ==
    LET f == MarkerField(s, i)
        close == Least(BalancedCloses(s, f, MarkerEnd(s, i)))
    IN Slice(s, 0, i)
       \o (IF keep THEN Slice(s, MarkerEnd(s, i), close) ELSE <<>>)
       \o Slice(s, close + Len(CloseTag(f)), Len(s))

\* a step of the section pass that replaces a section: the section {{#F}}T{{/F}}
\* becomes T when F is non-empty and nothing otherwise, {{^F}}T{{/F}} becomes
\* nothing when F is non-empty and T otherwise
C12_SectionStep ==
    (render_pc = "sections" /\ Len(reductions') > Len(reductions)) =>
        LET r == reductions'[Len(reductions')]
        IN /\ SectionAt(tpl_text, r.start)
           /\ BalancedCloses(tpl_text, r.field, MarkerEnd(tpl_text, r.start)) # {}
           /\ r.tag_type = "#" =>
                  tpl_text' = Reduced(tpl_text, r.start, NonEmptyField(r.field))
           /\ r.tag_type = "^" =>
                  tpl_text' = Reduced(tpl_text, r.start, ~NonEmptyField(r.field))

\* C12: every replacement the section pass makes reduces a positive section
\* to its inner markup exactly when the field's value is non-empty after
\* trimming (a missing field counts as empty) and to the empty string
\* otherwise, and a negated section to the opposite; so of {{#F}}T{{/F}} and
\* {{^F}}T{{/F}} exactly one keeps T under any mapping.
C12_SectionKeptByFieldValue == [][C12_SectionStep]_vars

\* C12 witness: under one mapping a negated section of a missing field was
\* kept and a positive section of the same field was dropped
C12_Witness ==
    \E j, k \in DOMAIN reductions :
        /\ reductions[j].field = reductions[k].field
        /\ reductions[j].field \notin DOMAIN fields
        /\ reductions[j].tag_type = "^" /\ reductions[j].kept
        /\ reductions[k].tag_type = "#" /\ ~reductions[k].kept

\* --------------------------------------------------------------------------
\* Properties of the placeholder pass of render_template
\* --------------------------------------------------------------------------

\* render_template has returned for a template that is the placeholder {{F}}
\* of a field F of the mapping
PlaceholderRendered(f) ==
    /\ render_pc = "done"
    /\ f \in DOMAIN fields
    /\ template = Placeholder(f)

\* the text holds a sound reference [sound:NAME]
HasSoundRef(s) == \E i \in 0..Len(s) : SoundAt(s, i)

\* a name FIELD_RE matches and _replace_field looks up as it is written: not
\* empty, no blank at either end, no colon, no brace, not the reserved name
PlainName(f) ==
    /\ f # <<>>
    /\ ~IsSpace(f[1]) /\ ~IsSpace(f[Len(f)])
    /\ \A i \in DOMAIN f : f[i] \notin {":", "{", "}"}
    /\ f # FrontSideName

\* C13 as stated: the template {{F}} renders to the value of F, whatever the
\* name F and whatever the value.
C13_PlaceholderRoundTrip ==
    \A f \in FieldNames : PlaceholderRendered(f) => tpl_text = fields[f]

\* C13 amended: the template {{F}} renders to the value of F verbatim when F
\* is a plain name (not empty, no blank at either end, no colon, no brace, not
\* FrontSide) and the value holds no sound reference.
C13_PlainPlaceholderRoundTrip ==
    \A f \in FieldNames :
        (PlaceholderRendered(f) /\ PlainName(f) /\ ~HasSoundRef(fields[f]))
            => tpl_text = fields[f]

\* C13 witness: a placeholder rendered to a value that itself looks like a
\* placeholder, unchanged
C13_Witness ==
    \E f \in FieldNames :
        /\ PlaceholderRendered(f) /\ PlainName(f)
        /\ fields[f] = Placeholder(<<"X">>)
        /\ tpl_text = fields[f]

\* --------------------------------------------------------------------------
\* Properties of the order and the end of the section pass
\* --------------------------------------------------------------------------

\* the offsets of the opening markers of s
Markers(s) == {i \in 0..Len(s) : SectionAt(s, i)}

\* the opening marker at offset i of s has no closing marker that balances it
Unclosed(s, i) == BalancedCloses(s, MarkerField(s, i), MarkerEnd(s, i)) = {}

\* the section pass stands at an opening marker without closing marker: the
\* leftmost opening marker of its text is unclosed
AtUnclosedMarker ==
    /\ render_pc = "sections"
    /\ Markers(tpl_text) # {}
    /\ Unclosed(tpl_text, Least(Markers(tpl_text)))

\* s ends with t
IsSuffix(t, s) == Len(t) <= Len(s) /\ Slice(s, Len(s) - Len(t), Len(s)) = t

\* the text from the leftmost opening marker on
FromMarker(s) == Slice(s, Least(Markers(s)), Len(s))

\* every replacement made so far ended before the last n characters of the
\* text it was made in
ReplacedBeforeTail(n) ==
    \A k \in DOMAIN reductions :
        reductions[k].end <= Len(reductions[k].before) - n

\* C19 as stated: when the pass has stopped at an opening marker without
\* closing marker, that marker and everything after it are as they stand in
\* the template.
C19_TailOfTemplateUnchanged ==
    AtUnclosedMarker => IsSuffix(FromMarker(tpl_text), template)

\* the pass stops at an unclosed leftmost marker: no replacement is made, the
\* text is returned as it is, nothing is raised
C19_StopStep ==
    AtUnclosedMarker =>
        /\ render_pc' = "front"
        /\ tpl_text' = tpl_text
        /\ reductions' = reductions

\* where the pass stops, no opening marker stands before the unclosed one,
\* and the marker and what follows it are as in the template when every
\* replacement was made before them
C19_StopState ==
    AtUnclosedMarker =>
        /\ \A i \in Markers(tpl_text) : i >= Least(Markers(tpl_text))
        /\ Markers(Slice(tpl_text, 0, Least(Markers(tpl_text)))) = {}
        /\ ReplacedBeforeTail(Len(FromMarker(tpl_text)))
               => IsSuffix(FromMarker(tpl_text), template)

\* C19 amended: when the leftmost opening marker of the text has no closing
\* marker, the pass stops there without raising and returns the text as it
\* is at that moment; no opening marker is left before that marker; the
\* marker and what follows it are as in the template unless the marker stood
\* inside a section that was replaced before (whose closing marker is gone).
C19_StopsAtUnclosedMarker == [][C19_StopStep]_vars /\ []C19_StopState

\* C19 witness: the pass has replaced a section and then stopped at an
\* unclosed marker that is followed by a well-formed section
C19_Witness ==
    /\ render_pc = "front"
    /\ reductions # <<>>
    /\ Markers(tpl_text) # {}
    /\ Unclosed(tpl_text, Least(Markers(tpl_text)))
    /\ Cardinality(Markers(tpl_text)) > 1

\* a step of the pass that replaces a section
Replaces == render_pc = "sections" /\ Len(reductions') > Len(reductions)

C14_LiteralToBrIdempotent ==
    literal_pc = "done" => literal_twice = literal_once

\* offsets of the markers of s
BrOffsets(s) == {i \in 1..Len(s) : s[i] = Br}

\* only whitespace stands between the positions i and j of s
OnlySpaceBetween(s, i, j) == \A k \in (i + 1)..(j - 1) : IsSpace(s[k])

\* C15: with the flag enabled the output of _literal_to_br holds no ASCII or
\* CJK comma or semicolon, no two markers that are adjacent or have only
\* whitespace between them, and no marker at its start or at its end.
C15_LiteralBrOutputClean ==
    (literal_pc # "first" /\ literal_enable) =>
        /\ \A i \in DOMAIN literal_once : ~IsSeparator(literal_once[i])
        /\ \A i, j \in BrOffsets(literal_once) :
               i < j => ~OnlySpaceBetween(literal_once, i, j)
        /\ literal_once # <<>> =>
               literal_once[1] # Br /\ literal_once[Len(literal_once)] # Br

\* C15 witness: a text with a marker of its own next to a separator came out
\* with a single marker in the middle
C15_Witness ==
    /\ literal_pc = "done" /\ literal_enable
    /\ literal_text = <<"a", Br, ",", "a">>
    /\ literal_once = <<"a", Br, "a">>

\* --------------------------------------------------------------------------
\* Properties of load_apkg_preview
\* --------------------------------------------------------------------------

\* the archives the loader has to refuse: not a zip archive, no media
\* manifest, no collection, no table col or no row in it, no renderable card
MustBeRefused ==
    \/ ~apkg.zip
    \/ apkg.media = "missing"
    \/ apkg.collection = "missing"
    \/ apkg.col \in {"no_table", "no_row"}
    \/ \A i \in DOMAIN apkg.stored : apkg.stored[i] # "renderable"

\* C16 as stated: load_apkg_preview ends with ApkgPreviewError, and no other
\* exception type, for every archive it has to refuse, and returns a
\* non-empty list of cards for every other archive.
C16_RefusedWithPreviewError ==
    preview_pc = "done" =>
        IF MustBeRefused
        THEN preview_exc = "ApkgPreviewError"
        ELSE preview_exc = "none" /\ cards # <<>>
\* --------------------------------------------------------------------------
\* Properties of the serialization of the deck
\* --------------------------------------------------------------------------

\* C17 as stated: in every builder the archive is written only when the deck
\* holds at least one note; a written archive therefore goes with a note
C17_NoEmptyDeckSerialized == apkg_written => notes # <<>>
\* --------------------------------------------------------------------------
\* Properties of the column mapping
\* --------------------------------------------------------------------------

\* the override gives field f a name that is not empty
Overridden(f) ==
    /\ ~col_override.none
    /\ f \in DOMAIN col_override.items
    /\ col_override.items[f] # ""

\* C18 as stated: in each of the three builders, whatever override the caller
\* gives, the mapping the row loop uses is defined on all eleven canonical
\* fields, with the override's value where one is given and not empty and the
\* canonical name otherwise
C18_MappingDefinedOnAllFields ==
    col_pc = "done" =>
        \A f \in ColumnFields :
            /\ f \in DOMAIN col_mapping
            /\ col_mapping[f] = IF Overridden(f) THEN col_override.items[f] ELSE f

\* the same for the two builders that merge the override into the defaults
MergingBuildersDefinedOnAllFields ==
    (col_pc = "done" /\ col_builder \in {"core", "ui"}) =>
        \A f \in ColumnFields :
            /\ f \in DOMAIN col_mapping
            /\ col_mapping[f] = IF Overridden(f) THEN col_override.items[f] ELSE f
\* --------------------------------------------------------------------------
\* Properties of the front side of render_template
\* --------------------------------------------------------------------------

\* a character no template, value or markup holds: it stands where the front
\* side goes
FrontMark == "FRONT"

\* the loop of _render_sections run to its end
RECURSIVE SectionsDone(_, _)
SectionsDone(s, mapping) ==
    LET p == SectionPass(s, mapping)
    IN IF p.stop THEN p.text ELSE SectionsDone(p.text, mapping)

\* what render_template makes of the template around the front side: the
\* passes run with the mark at every {{FrontSide}} position
RenderedAroundFront(t, mapping, media) ==
    _replace_sound_refs(
        FIELD_RE_sub(Replace(SectionsDone(t, mapping), FrontSide, <<FrontMark>>), 0, mapping),
        0, media)

\* the template holds the front-side placeholder after the section pass
HasFrontSide == Find(SectionsDone(template, fields), FrontSide, 0) # -1

\* C21 as stated: the result of render_template is what it makes of the
\* template around the front side, with the front markup inserted unchanged at
\* every {{FrontSide}} position; the field pass and the sound pass do not
\* touch the front markup
C21_FrontSideVerbatim ==
    render_pc = "done" =>
        tpl_text = Replace(RenderedAroundFront(template, fields, media_map),
                           <<FrontMark>>, front_side)
\* --------------------------------------------------------------------------
\* Properties of the sections behind an unterminated section
\* --------------------------------------------------------------------------

\* render_template as a function of its arguments: the four passes in order
render_template(t, mapping, media, front) ==
    LET sections == SectionsDone(t, mapping)
        spliced == IF Find(sections, FrontSide, 0) # -1
                   THEN Replace(sections, FrontSide, front)
                   ELSE sections
    IN _replace_sound_refs(FIELD_RE_sub(spliced, 0, mapping), 0, media)

\* the well-formed sections that stand behind an unterminated marker
SectionTails == {t \in Tails : SECTION_RE(t).found}

\* the ways the template is markup, an opening marker without a closing marker
\* of its own, and a well-formed section behind it
LaterSections ==
    {w \in [before : Bodies(1) \cup {<<>>}, marker : Openers, after : SectionTails] :
       template = w.before \o w.marker.open \o w.after}

\* C27 as stated: a well-formed section is rendered by its field's value also
\* when an unterminated section opens before it; the result is what
\* render_template makes of the markup up to and including the unterminated
\* marker, followed by what it makes of the later section alone
C27_LaterSectionUnaffected ==
    render_pc = "done" =>
        \A w \in LaterSections :
            tpl_text = render_template(w.before \o w.marker.open, fields, media_map, front_side)
                       \o render_template(w.after, fields, media_map, front_side)
\* --------------------------------------------------------------------------
\* Properties of the termination of render_template
\* --------------------------------------------------------------------------

\* every value of the sequence is greater than the one before it
Increasing(q) == \A k \in 1..(Len(q) - 1) : q[k] < q[k + 1]

\* the values idx takes in the call of _extract_section that the loop of
\* _render_sections makes on the text as it is
ScanOfNextSection ==
    LET m == SECTION_RE(tpl_text)
    IN IF m.found
       THEN _extract_section(tpl_text, Strip(m.raw_field), m.end).scan
       ELSE <<>>

\* a step of the loop of _render_sections: the loop goes on with a strictly
\* shorter text or is left, and the scan index of _extract_section advances
\* with every iteration
C28_LoopStep ==
    render_pc = "sections" =>
        /\ Increasing(ScanOfNextSection)
        /\ render_pc' = "sections" => Len(tpl_text') < Len(tpl_text)

\* C28: render_template terminates for every template and mapping: every
\* iteration of the loop of _render_sections stops the loop or strictly
\* shortens the text, and every iteration of the loop of _extract_section
\* advances its scan index; the length of the text bounds the iterations
C28_RenderTemplateTerminates == [][C28_LoopStep]_vars

\* render_template has returned after at least two iterations of the loop of
\* _render_sections, one of them on a section whose call of _extract_section
\* went through a nested section of the same field
C28_Witness ==
    /\ render_pc = "done"
    /\ Len(reductions) >= 2
    /\ \E k \in 1..Len(reductions) :
         Len(_extract_section(reductions[k].before, reductions[k].field,
                              SECTION_RE(reductions[k].before).end).scan) > 2
\* --------------------------------------------------------------------------
\* Properties of the ambient mixing step
\* --------------------------------------------------------------------------

\* C22: in _render_audio and PydubAudioEngine.render, for every voice length
\* and every ambient sample of length one or more, the repeated track is at
\* least as long as the voice, the sliced track has exactly the length of the
\* voice, and so has the mixed clip
C22_AmbientCutToVoiceLength ==
    (amb_pc = "done" /\ amb_impl \in {"core", "ui"} /\ amb_sample >= 1) =>
        /\ amb_exc = "none"
        /\ amb_looped >= amb_voice
        /\ amb_len = amb_voice
        /\ amb_mixed = amb_voice

\* a sample that was repeated, with a voice length it divides, was cut to the
\* length of the voice
C22_Witness ==
    /\ amb_pc = "done"
    /\ amb_impl = "core"
    /\ amb_sample = 2
    /\ amb_voice = 4
    /\ amb_looped = 6
    /\ amb_len = 4

\* an iteration of the while loop has made the ambient track longer
C29_LoopStep ==
    (amb_pc = "loop" /\ amb_iters' = amb_iters + 1) => amb_len' > amb_len

\* C29 as stated: the loop that extends the ambient track until it reaches
\* the length of the voice ends for every voice length and every sample
\* length, a sample of length zero included: every iteration brings the
\* track closer to the length of the voice
C29_AmbientLoopEnds == [][C29_LoopStep]_vars
\* --------------------------------------------------------------------------
\* Properties of the engine handle of mandarin_anki.builder
\* --------------------------------------------------------------------------

\* no row of the table needs synthesis: regeneration is off and the audio
\* file of every row with Hanzi was there before the build
NoRowNeedsSynthesis ==
    /\ ~regenerate
    /\ \A i \in 1..Len(rows) :
         \/ HanziMissing(Get(rows[i], "Hanzi", <<>>))
         \/ Exists(fs0, dirs, AudioPath(Get(rows[i], "Audio", <<>>), i))

\* C23 as stated: within one call of mandarin_anki.builder.build_anki_deck
\* the factory's create is invoked at most once, whatever happens while rows
\* are processed, and not at all when no row needs synthesis; every synthesis
\* call is made on the same handle
C23_EngineCreatedOnce ==
    entry = "core" =>
        /\ create_calls <= 1
        /\ (rows_read /\ NoRowNeedsSynthesis) => create_calls = 0
        /\ \A j, k \in 1..Len(synth_log) : synth_log[j].handle = synth_log[k].handle
\* --------------------------------------------------------------------------
\* Properties of the temporary waveform
\* --------------------------------------------------------------------------

\* the loop of mandarin_anki.builder has ended the processing of row i
RowEnded(i) == i <= idx

\* tts_NNN.wav of row i is a temporary file of this build and nothing else:
\* it was not there before and no row names it as its audio file
OnlyTemporary(i) ==
    /\ ~Exists(fs0, dirs, TmpWav(i))
    /\ \A j \in 1..Len(rows) : AudioPath(Get(rows[j], "Audio", <<>>), j) # TmpWav(i)

\* C24 as stated: in mandarin_anki.builder, once the processing of a row has
\* ended its temporary waveform tts_NNN.wav does not exist, whether mixing
\* and encoding succeeded or raised
C24_TemporaryWaveformRemoved ==
    entry = "core" =>
        \A i \in 1..Len(rows) :
            (RowEnded(i) /\ OnlyTemporary(i)) => ~Exists(fs, dirs, TmpWav(i))
\* --------------------------------------------------------------------------
\* Properties of the row accounting
\* --------------------------------------------------------------------------

\* the number of rows whose try block has run: the loop variable, less the
\* row that mandarin_anki_ui.deck_builder has announced but not yet processed
RowsDone ==
    IF entry = "ui" /\ (pc = "row" \/ (outcome = "raised" /\ exc.type = "CallbackError"
                                       /\ exc.detail = "processing"))
    THEN idx - 1
    ELSE idx

NoteAudioPath(n) ==
    IF entry = "core"
    THEN AudioPath(Get(rows[n.row], "Audio", <<>>), n.row)
    ELSE UiAudioName(Get(rows[n.row], "Audio", <<>>), n.row)

\* C26 as stated: in a build with regenerate_audio_if_exists = true that has
\* returned, the audio file each note names holds the synthesis of that
\* note's own Hanzi text, whatever Audio values the rows carry
C26_AudioHoldsOwnSynthesis ==
    (entry \in {"core", "ui"} /\ regenerate /\ outcome = "returned") =>
        \A k \in 1..Len(notes) :
            /\ NoteAudioPath(notes[k]) \in DOMAIN fs
            /\ fs[NoteAudioPath(notes[k])] = notes[k].Hanzi
\* --------------------------------------------------------------------------
\* Properties of the preview and the build of one upload
\* --------------------------------------------------------------------------

\* the notes the build added for row i
BuiltFor(i) == {k \in 1..Len(bd_notes) : bd_notes[k].row = i}

\* the preview rows of row i that show cards
PreviewedFor(i) == {k \in 1..Len(pv_rows) : pv_rows[k].index = i /\ pv_rows[k].cards}

\* C30 as stated: for every row among the first ten of an uploaded table, the
\* preview shows cards for the row exactly when the build adds a note for it,
\* and the UID and the audio file name of the preview are those of the note
C30_PreviewAgreesWithBuild ==
    agree_pc = "built" =>
        \A i \in 1..Len(up_rows) :
            i <= PreviewLimit =>
                /\ (PreviewedFor(i) # {}) <=> (BuiltFor(i) # {})
                /\ \A p \in PreviewedFor(i), b \in BuiltFor(i) :
                     /\ pv_rows[p].uid = bd_notes[b].uid
                     /\ pv_rows[p].audio = bd_notes[b].audio

====
